---- MODULE Spec2Model ----
(***************************************************************************)
(* A model of the authentication / authorization core of nuxt-auth-service *)
(* (multi-tenant context, RBAC, TOTP two-factor authentication).           *)
(*                                                                         *)
(* The module holds three state machines over disjoint variables; they     *)
(* share only dbEnabled and dbProvider, the configured database:           *)
(*   SpecTOTP    the 2FA engine           (src/runtime/server/utils/totp.ts)*)
(*   SpecSetup   the 2FA setup flow alone, with the history of the secrets *)
(*               generateTOTPSecret handed out                             *)
(*   SpecRBAC    the RBAC engine          (src/runtime/server/utils/rbac.ts)*)
(*   SpecTenant  the tenant-context map   (src/runtime/server/utils/tenant.ts)*)
(* Each specification leaves the other machines' variables unchanged.      *)
(***************************************************************************)
EXTENDS Integers, Sequences, FiniteSets, TLC

VARIABLES
    \* ---- persistence, 2FA part (users and recovery_codes tables)
    dbEnabled,      \* isDatabaseFeatureEnabled(): dbInstance !== null
    dbProvider,     \* the driver initializeDatabase built dbInstance with
    users,          \* userId -> [twoFactorEnabled, twoFactorSecret]
    recoveryCodes,  \* set of rows [id, userId, code, used, usedAt]
    nextId,         \* source of fresh row ids (randomUUID)
    now,            \* the clock, in 30-second TOTP steps
    issued,         \* history: the (userId, secret) pairs generateTOTPSecret returned
    totpLast,       \* the last 2FA call: operation, user, whether it threw, its
                    \* result; for enable2FA whether the token verified and, when
                    \* it returned true, the secret and the codes it was given
    \* ---- persistence, RBAC part (user_roles table; roles are seeded)
    userRoles,      \* set of rows [userId, roleId]
    rbacLast,       \* the last RBAC call: its arguments and its result
    queryErrors,    \* the RBAC queries the database raises an error on
    \* ---- tenant context
    tenantContext,  \* the module-level Map<string, ServerTenantContext>
    eventId,        \* request -> event.__tenantContextId__
    reqPc,          \* request -> where the request is in its lifecycle
    reqSlug,        \* request -> the tenant identifier its headers carry
    stored,         \* history: request -> the context its initializeTenantContext stored
    got,            \* request -> what getCurrentTenantId(event) returned to its handler
    setCalls,       \* history: request -> how often setTenantContext ran for it
    tenantConfig,   \* runtime config multiTenant: enabled and strategy
    detectLast,     \* a detectTenant call: the request's headers, the
                    \* multiTenant configuration and, once made, its result
    \* ---- TOTP provisioning and verification
    totpWindow,     \* runtime config totp.config.window, 0 when it is not set
    verifyLast,     \* the last verifyTOTPCode call of the round trip and its result
    \* ---- session guards
    guardLast,      \* the last requirePermission / requireRole /
                    \* getUserSessionWithRBAC call: what it was given and did
    \* ---- startup: seeds and the super-admin account
    env,            \* process.env: NUXT_SUPER_ADMIN_LOGIN / _PASSWORD, when set
    accountRows,    \* users rows [id, organizationId, email, password, updatedAt]
    roleRows,       \* roles rows [id, organizationId, slug]
    permissionRows, \* permissions rows [id, slug]
    rolePermissionRows, \* role_permissions rows [roleId, permissionId]
    bootNextId,     \* source of fresh ids (randomUUID) of the startup code
    startups,       \* how often the server process has started
    startup,        \* the last start: what the database plugin did
    \* ---- rate limiting
    rateLimitStore, \* key -> [count, resetTime], the Map rateLimitStore
    rateNow,        \* Date.now()
    rateRules,      \* prefix -> the rule its limiter was created with
    admitted,       \* history: key -> calls let through since its entry was created
    inFlight,       \* ip -> super-admin logins past the limiter, not yet answered
    rateLast,       \* the last limiter call or store operation
    \* ---- endpoints
    endpointLast,   \* the last request to an endpoint and its response
    \* ---- organization cache
    organizationCache, \* id -> [org, timestamp], the Map organizationCache
    cacheNow,       \* Date.now(), in milliseconds
    organizations,  \* organizations table: id -> the row's name, Null for no row
    orgCall,        \* caller -> where its getOrganizationById call stands
    cacheLast,      \* the last getOrganizationById call that returned
    \* ---- handlers running at the same time
    running         \* handler -> its call: where it stands, what it has read

vars == <<dbEnabled, dbProvider, users, recoveryCodes, nextId, now, issued, totpLast,
          userRoles, rbacLast,
          tenantContext, eventId, reqPc, reqSlug, stored, got, setCalls, tenantConfig,
          detectLast,
          totpWindow, verifyLast, guardLast, queryErrors,
          env, accountRows, roleRows, permissionRows, rolePermissionRows, bootNextId,
          startups, startup,
          rateLimitStore, rateNow, rateRules, admitted, inFlight, rateLast,
          endpointLast,
          organizationCache, cacheNow, organizations, orgCall, cacheLast,
          running>>

totpVars == <<users, recoveryCodes, nextId, now, issued, totpLast>>
rbacVars == <<userRoles, rbacLast>>
tenantVars == <<tenantContext, eventId, reqPc, reqSlug, stored, got, setCalls,
                tenantConfig, detectLast>>
roundTripVars == <<totpWindow, verifyLast>>
restVars == <<roundTripVars, guardLast, queryErrors>>
bootVars == <<env, accountRows, roleRows, permissionRows, rolePermissionRows,
              bootNextId, startups, startup>>
rateVars == <<rateLimitStore, rateNow, rateRules, admitted, inFlight, rateLast>>
endpointVars == <<endpointLast>>
cacheVars == <<organizationCache, cacheNow, organizations, orgCall, cacheLast>>
raceVars == <<running>>
laterVars == <<cacheVars, raceVars>>
serviceVars == <<bootVars, rateVars, endpointVars, laterVars>>

\* JavaScript's null / undefined
Null == "null"
Undefined == "undefined"

\* A record with no field.
EmptyRecord == [field \in {} |-> Null]

(***************************************************************************)
(* Bounds of the model.                                                    *)
(***************************************************************************)
MaxTime == 1      \* the clock runs over steps 0..MaxTime
MaxBatch == 2     \* a batch of backup codes has at most MaxBatch codes
MaxChecks == 1    \* hasAnyPermission / hasAllPermissions take at most MaxChecks checks
MaxRows == 1      \* the failing runs assign while user_roles has fewer than MaxRows rows
MaxIds == 2       \* at most MaxIds recovery-code rows are ever inserted
MaxPieces == 5    \* an enumerated host has at most MaxPieces pieces
MaxLogin == 5     \* an enumerated login has at most MaxLogin characters
MaxStartups == 2  \* the server process starts at most MaxStartups times
MaxWindow == 2    \* a rate-limit window lasts at most MaxWindow clock units
MaxAttempts == 2  \* a rate-limit rule admits at most MaxAttempts calls a window
MaxClock == 2     \* the rate limiter's clock stops at MaxClock
MaxInFlight == 1  \* super-admin logins of one client between limiter and answer
MaxCacheTicks == 2 \* the cache's clock stops after MaxCacheTicks half time-to-lives

(***************************************************************************)
(* The database connection.                                                *)
(***************************************************************************)

\* initializeDatabase builds the instance with drizzle over better-sqlite3,
\* postgres-js or mysql2. better-sqlite3 is synchronous: its transaction ends
\* when the callback returns, and an async callback returns at its first await,
\* so the awaited statements run afterwards, each committed on its own. The
\* server drivers await the callback inside the transaction; mysql2 behaves as
\* postgres-js here and is not listed.
Providers == {"sqlite", "postgres"}

\* dbInstance after start-up: null with no database configured, otherwise the
\* instance of the configured provider.
DatabaseInit ==
    \/ dbEnabled = FALSE /\ dbProvider = Null
    \/ dbEnabled = TRUE /\ dbProvider \in Providers

(***************************************************************************)
(* 2FA engine: values.                                                     *)
(***************************************************************************)
Users == {"u1", "u2"}

\* A user id that no row of the users table has.
UnknownUser == "u0"

\* Well-formed base32 secrets, and one string Secret.fromBase32 throws on.
Secrets == {"s1", "s2"}
BadSecret == "bad"

SecretIndex(secret) == IF secret = "s1" THEN 0 ELSE 1

\* The default of verifyTOTPCode's window argument, and the farthest step from
\* the clock a code is taken: one past the window.
DefaultWindow == 1
StepsAway == DefaultWindow + 1

\* Counters that are asked for are -StepsAway..MaxTime+StepsAway.
TokenStride == MaxTime + 2 * StepsAway + 1

\* otpauth's TOTP.generate at a given counter (HMAC-SHA1 truncated to 6 digits),
\* taken as collision free over the counters of the model.
TOTPGenerate(secret, counter) ==
    SecretIndex(secret) * TokenStride + counter + StepsAway

\* A string that is the TOTP code of no secret at any step
NotACode == 2 * TokenStride

\* Strings a caller can send as a code or keep as a backup code: one of them is
\* also the TOTP code of secret s1 at step 0 (a backup code is any string the
\* caller of enable2FA supplies), the other is no TOTP code of any secret.
CodeValues == {TOTPGenerate("s1", 0), NotACode}

\* string[] arguments and generated batches, up to MaxBatch long
Batches == UNION {[1..n -> CodeValues] : n \in 0..MaxBatch}

Range(s) == {s[i] : i \in DOMAIN s}

NoDuplicates(s) == \A i, j \in DOMAIN s : s[i] = s[j] => i = j

(***************************************************************************)
(* 2FA engine: pure parts.                                                 *)
(***************************************************************************)

\* The period verifyTOTPCode builds its TOTP with, in seconds.
Period == 30

\* The period generateTOTPSecret falls back to when totp.config.window is
\* not set.
FallbackPeriod == 30

\* The clock in seconds: `now` counts 30-second steps.
Timestamp(step) == step * Period

\* otpauth's TOTP.validate({token, window}) at a timestamp: the token is the
\* code of a counter at most `window` away from floor(timestamp / period).
TOTPValidate(secret, period, timestamp, token, window) ==
    \E d \in -window..window :
       TOTPGenerate(secret, (timestamp \div period) + d) = token

\* verifyTOTPCode(secret, token, window = 1): a TOTP of period 30; any exception
\* (Secret.fromBase32 on a malformed or null secret) is caught and gives false.
verifyTOTPCode(secret, token, window) ==
    IF secret \notin Secrets
    THEN FALSE
    ELSE TOTPValidate(secret, Period, Timestamp(now), token, window)

\* The values totp.config.window is configured with, in seconds; 0 stands for
\* a value that is not set.
ConfiguredWindows == {0, 30, 60}

\* generateTOTPSecret: the period of the TOTP whose provisioning URI the user's
\* authenticator is set up with, `totpConfig.window || 30`.
ProvisionedPeriod == IF totpWindow = 0 THEN FallbackPeriod ELSE totpWindow

\* The code the authenticator set up from that URI shows at a step of the clock.
AuthenticatorCode(secret, step) ==
    TOTPGenerate(secret, Timestamp(step) \div ProvisionedPeriod)

\* generateBackupCodes(count, length): `count` strings of random characters; no
\* uniqueness check is made, so any sequence of that many values may come out.
generateBackupCodes(count) == {b \in Batches : Len(b) = count}

\* The rows `tx.insert(recoveryCodes).values({id: randomUUID(), userId, code,
\* used: false})` adds for each code of the batch, in order.
NewCodeRows(userId, batch, firstId) ==
    {[id |-> firstId + i - 1, userId |-> userId, code |-> batch[i],
      used |-> FALSE, usedAt |-> Null] : i \in DOMAIN batch}

\* recovery_codes_code_idx is a unique index on code: an insert of a value that
\* a kept row, or an earlier row of the same batch, holds raises an error.
UniqueViolation(rows, batch) ==
    \/ ~NoDuplicates(batch)
    \/ \E r \in rows : r.code \in Range(batch)

UnusedCodes(rows, userId) == {r \in rows : r.userId = userId /\ r.used = FALSE}

\* The codes of a batch that the insert loop stores before the insert that
\* raises: the longest prefix with no unique violation.
InsertedBeforeError(rows, batch) ==
    LET fits == {n \in 0..Len(batch) : ~UniqueViolation(rows, SubSeq(batch, 1, n))}
    IN  SubSeq(batch, 1, CHOOSE n \in fits : \A m \in fits : m <= n)

\* db.transaction(async (tx) => ...) whose callback raised, entered with
\* (us, rows) and having stored (partUsers, partRows) by then: a server driver
\* rolls back; under better-sqlite3 the statements ran outside the transaction
\* and what they stored stays. The rejection reaches the caller either way.
TransactionFailed(us, rows, partUsers, partRows) ==
    IF dbProvider = "sqlite"
    THEN [ok |-> FALSE, users |-> partUsers, recoveryCodes |-> partRows]
    ELSE [ok |-> FALSE, users |-> us, recoveryCodes |-> rows]

\* Faulty variant of enable2FATransaction: the user's earlier codes are kept.
enable2FAKeepingCodes(us, rows, userId, secret, backupCodes, firstId) ==
    IF UniqueViolation(rows, backupCodes)
    THEN [ok |-> FALSE, users |-> us, recoveryCodes |-> rows]
    ELSE [ok |-> TRUE,
          users |-> [us EXCEPT ![userId] =
                        [twoFactorEnabled |-> TRUE, twoFactorSecret |-> secret]],
          recoveryCodes |-> rows \cup NewCodeRows(userId, backupCodes, firstId)]

\* The transaction of enable2FA: update the user, delete the user's recovery
\* codes, insert the new ones one by one.
enable2FATransaction(us, rows, userId, secret, backupCodes, firstId) ==
    LET kept == {r \in rows : r.userId # userId}
        updated == [us EXCEPT ![userId] =
                       [twoFactorEnabled |-> TRUE, twoFactorSecret |-> secret]]
    IN  IF UniqueViolation(kept, backupCodes)
        THEN TransactionFailed(us, rows, updated,
                 kept \cup NewCodeRows(userId, InsertedBeforeError(kept, backupCodes),
                                       firstId))
        ELSE [ok |-> TRUE, users |-> updated,
              recoveryCodes |-> kept \cup NewCodeRows(userId, backupCodes, firstId)]

\* Faulty variant of disable2FATransaction: the secret is cleared, the flag is not.
disable2FAKeepingFlag(us, rows, userId) ==
    [ok |-> TRUE,
     users |-> [us EXCEPT ![userId].twoFactorSecret = Null],
     recoveryCodes |-> {r \in rows : r.userId # userId}]

\* The transaction of disable2FA: clear the flag and the secret, delete every
\* recovery code of the user.
disable2FATransaction(us, rows, userId) ==
    [ok |-> TRUE,
     users |-> [us EXCEPT ![userId] =
                   [twoFactorEnabled |-> FALSE, twoFactorSecret |-> Null]],
     recoveryCodes |-> {r \in rows : r.userId # userId}]

\* Faulty variant of generateNewBackupCodesTransaction: the used codes go too.
generateNewBackupCodesDroppingUsed(us, rows, userId, backupCodes, firstId) ==
    LET kept == {r \in rows : r.userId # userId}
    IN  IF UniqueViolation(kept, backupCodes)
        THEN [ok |-> FALSE, users |-> us, recoveryCodes |-> rows]
        ELSE [ok |-> TRUE, users |-> us,
              recoveryCodes |-> kept \cup NewCodeRows(userId, backupCodes, firstId)]

\* The transaction of generateNewBackupCodes: delete the user's unused codes,
\* insert the fresh batch one by one.
generateNewBackupCodesTransaction(us, rows, userId, backupCodes, firstId) ==
    LET kept == rows \ UnusedCodes(rows, userId)
    IN  IF UniqueViolation(kept, backupCodes)
        THEN TransactionFailed(us, rows, us,
                 kept \cup NewCodeRows(userId, InsertedBeforeError(kept, backupCodes),
                                       firstId))
        ELSE [ok |-> TRUE, users |-> us,
              recoveryCodes |-> kept \cup NewCodeRows(userId, backupCodes, firstId)]

\* The TOTPVerification results of verify2FA: isBackupCode and
\* remainingBackupCodes are absent unless a backup code matched.
Invalid == [isValid |-> FALSE]
ValidTOTP == [isValid |-> TRUE]

\* The rows verify2FA's backup-code query matches: userId, code and used = false.
MatchingCodes(rows, userId, code) ==
    {r \in rows : r.userId = userId /\ r.code = code /\ r.used = FALSE}

\* Faulty variant of MarkUsed: the row is left as it is.
MarkUsedNever(rows, row) == rows

\* update(recoveryCodes).set({used: true, usedAt: new Date()}).where(id = row.id)
MarkUsed(rows, row) ==
    {IF r.id = row.id THEN [r EXCEPT !.used = TRUE, !.usedAt = now] ELSE r : r \in rows}

\* Faulty variant of verify2FAOutcome: a code that was used is told apart.
verify2FATellingUsed(us, rows, userId, code) ==
    IF ~dbEnabled
    THEN [result |-> Invalid, recoveryCodes |-> rows]
    ELSE IF \/ userId \notin DOMAIN us
            \/ ~us[userId].twoFactorEnabled
            \/ us[userId].twoFactorSecret = Null
    THEN [result |-> Invalid, recoveryCodes |-> rows]
    ELSE IF verifyTOTPCode(us[userId].twoFactorSecret, code, DefaultWindow)
    THEN [result |-> ValidTOTP, recoveryCodes |-> rows]
    ELSE IF MatchingCodes(rows, userId, code) = {}
    THEN [result |-> IF \E r \in rows : r.userId = userId /\ r.code = code
                     THEN [isValid |-> FALSE, isBackupCode |-> TRUE,
                           remainingBackupCodes |->
                               Cardinality(UnusedCodes(rows, userId))]
                     ELSE Invalid,
          recoveryCodes |-> rows]
    ELSE LET row == CHOOSE r \in MatchingCodes(rows, userId, code) : TRUE
             after == MarkUsed(rows, row)
         IN  [result |-> [isValid |-> TRUE, isBackupCode |-> TRUE,
                          remainingBackupCodes |-> Cardinality(UnusedCodes(after, userId))],
              recoveryCodes |-> after]

\* Faulty variant of verify2FAOutcome: the recovery codes are tried first.
verify2FARecoveryCodesFirst(us, rows, userId, code) ==
    IF ~dbEnabled
    THEN [result |-> Invalid, recoveryCodes |-> rows]
    ELSE IF \/ userId \notin DOMAIN us
            \/ ~us[userId].twoFactorEnabled
            \/ us[userId].twoFactorSecret = Null
    THEN [result |-> Invalid, recoveryCodes |-> rows]
    ELSE IF MatchingCodes(rows, userId, code) # {}
    THEN LET row == CHOOSE r \in MatchingCodes(rows, userId, code) : TRUE
             after == MarkUsed(rows, row)
         IN  [result |-> [isValid |-> TRUE, isBackupCode |-> TRUE,
                          remainingBackupCodes |-> Cardinality(UnusedCodes(after, userId))],
              recoveryCodes |-> after]
    ELSE IF verifyTOTPCode(us[userId].twoFactorSecret, code, DefaultWindow)
    THEN [result |-> ValidTOTP, recoveryCodes |-> rows]
    ELSE [result |-> Invalid, recoveryCodes |-> rows]

\* verify2FA(userId, code) run to its end: the result and the rows afterwards.
verify2FAOutcome(us, rows, userId, code) ==
    IF ~dbEnabled
    THEN [result |-> Invalid, recoveryCodes |-> rows]
    ELSE IF \/ userId \notin DOMAIN us
            \/ ~us[userId].twoFactorEnabled
            \/ us[userId].twoFactorSecret = Null
    THEN [result |-> Invalid, recoveryCodes |-> rows]
    ELSE IF verifyTOTPCode(us[userId].twoFactorSecret, code, DefaultWindow)
    THEN [result |-> ValidTOTP, recoveryCodes |-> rows]
    ELSE IF MatchingCodes(rows, userId, code) = {}
    THEN [result |-> Invalid, recoveryCodes |-> rows]
    ELSE LET row == CHOOSE r \in MatchingCodes(rows, userId, code) : TRUE
             after == MarkUsed(rows, row)
         IN  [result |-> [isValid |-> TRUE, isBackupCode |-> TRUE,
                          remainingBackupCodes |-> Cardinality(UnusedCodes(after, userId))],
              recoveryCodes |-> after]

\* The statements verify2FA sends to the database, in order.
Statements == {"selectUser", "selectCode", "markUsed", "countRemaining"}

\* Whether verify2FA(userId, code) gets as far as sending `statement`.
verify2FAReaches(us, rows, userId, code, statement) ==
    LET has2FA == /\ userId \in DOMAIN us
                  /\ us[userId].twoFactorEnabled
                  /\ us[userId].twoFactorSecret # Null
        triesCode == /\ has2FA
                     /\ ~verifyTOTPCode(us[userId].twoFactorSecret, code, DefaultWindow)
        found == triesCode /\ MatchingCodes(rows, userId, code) # {}
    IN  CASE statement = "selectUser" -> TRUE
          [] statement = "selectCode" -> triesCode
          [] statement \in {"markUsed", "countRemaining"} -> found

\* verify2FA(userId, code) when `statement` raises: the catch block answers
\* {isValid: false}; the update that marked the code has happened by the time
\* the count is taken.
verify2FACaught(us, rows, userId, code, statement) ==
    [result |-> Invalid,
     recoveryCodes |->
        IF statement = "countRemaining"
        THEN MarkUsed(rows, CHOOSE r \in MatchingCodes(rows, userId, code) : TRUE)
        ELSE rows]

\* Faulty variant of enable2FAOutcome: the transaction runs whatever the token.
enable2FAUnverified(us, rows, userId, secret, token, backupCodes, firstId) ==
    LET tx == enable2FATransaction(us, rows, userId, secret, backupCodes, firstId)
    IN  [isValidToken |-> verifyTOTPCode(secret, token, DefaultWindow),
         result |-> tx.ok, users |-> tx.users, recoveryCodes |-> tx.recoveryCodes]

\* enable2FA(userId, secret, token, backupCodes) past the persistence check, run
\* to its end: a token that does not verify returns false at once; an error in
\* the transaction is caught and returns false.
enable2FAOutcome(us, rows, userId, secret, token, backupCodes, firstId) ==
    LET tx == enable2FATransaction(us, rows, userId, secret, backupCodes, firstId)
    IN  IF ~verifyTOTPCode(secret, token, DefaultWindow)
        THEN [isValidToken |-> FALSE, result |-> FALSE,
              users |-> us, recoveryCodes |-> rows]
        ELSE [isValidToken |-> TRUE, result |-> tx.ok,
              users |-> tx.users, recoveryCodes |-> tx.recoveryCodes]

getBackupCodesCount(userId) ==
    IF ~dbEnabled THEN 0 ELSE Cardinality(UnusedCodes(recoveryCodes, userId))

is2FAEnabled(userId) ==
    IF ~dbEnabled \/ userId \notin DOMAIN users THEN FALSE
    ELSE users[userId].twoFactorEnabled

(***************************************************************************)
(* 2FA engine: the operations.                                             *)
(***************************************************************************)

\* The tokens a caller tries: the code of the secret at some step of the clock
\* (current, drifted or stale), or a string that is no code.
TokensFor(secret) ==
    {NotACode} \cup
    (IF secret \in Secrets THEN {TOTPGenerate(secret, c) : c \in 0..MaxTime} ELSE {})

generateTOTPSecret(userId) ==
    /\ \E secret \in Secrets :
          totpLast' = [op |-> "generateTOTPSecret", userId |-> userId,
                       threw |-> FALSE, result |-> secret]
    /\ UNCHANGED <<dbEnabled, dbProvider, users, recoveryCodes, nextId, now>>

enable2FA(userId, secret, token, backupCodes) ==
    /\ nextId + Len(backupCodes) <= MaxIds
    /\ LET call == [op |-> "enable2FA", userId |-> userId]
           out == enable2FAOutcome(users, recoveryCodes, userId, secret, token,
                                   backupCodes, nextId)
       IN  IF ~dbEnabled
           THEN /\ totpLast' = call @@ [threw |-> TRUE]
                /\ UNCHANGED <<users, recoveryCodes, nextId>>
           ELSE /\ totpLast' = IF out.result
                                THEN call @@ [threw |-> FALSE, result |-> TRUE,
                                              isValidToken |-> out.isValidToken,
                                              secret |-> secret,
                                              backupCodes |-> backupCodes]
                                ELSE call @@ [threw |-> FALSE, result |-> FALSE,
                                              isValidToken |-> out.isValidToken]
                /\ users' = out.users
                /\ recoveryCodes' = out.recoveryCodes
                /\ nextId' = nextId + Cardinality(out.recoveryCodes \ recoveryCodes)
    /\ UNCHANGED <<dbEnabled, dbProvider, now, issued>>

disable2FA(userId) ==
    /\ LET call == [op |-> "disable2FA", userId |-> userId, threw |-> FALSE]
           tx == disable2FATransaction(users, recoveryCodes, userId)
       IN  IF ~dbEnabled
           THEN /\ totpLast' = call @@ [result |-> FALSE]
                /\ UNCHANGED <<users, recoveryCodes>>
           ELSE /\ totpLast' = call @@ [result |-> tx.ok]
                /\ users' = tx.users
                /\ recoveryCodes' = tx.recoveryCodes
    /\ UNCHANGED <<dbEnabled, dbProvider, nextId, now, issued>>

verify2FA(userId, code) ==
    /\ LET out == verify2FAOutcome(users, recoveryCodes, userId, code)
       IN  /\ totpLast' = [op |-> "verify2FA", userId |-> userId,
                           threw |-> FALSE, result |-> out.result, failed |-> FALSE]
           /\ recoveryCodes' = out.recoveryCodes
    /\ UNCHANGED <<dbEnabled, dbProvider, users, nextId, now, issued>>

\* verify2FA(userId, code) in which the database raises at `statement`.
verify2FAFailing(userId, code, statement) ==
    /\ dbEnabled
    /\ verify2FAReaches(users, recoveryCodes, userId, code, statement)
    /\ LET out == verify2FACaught(users, recoveryCodes, userId, code, statement)
       IN  /\ totpLast' = [op |-> "verify2FA", userId |-> userId,
                           threw |-> FALSE, result |-> out.result, failed |-> TRUE]
           /\ recoveryCodes' = out.recoveryCodes
    /\ UNCHANGED <<dbEnabled, dbProvider, users, nextId, now, issued>>

generateNewBackupCodes(userId, count) ==
    /\ nextId + count <= MaxIds
    /\ \E backupCodes \in generateBackupCodes(count) :
          LET tx == generateNewBackupCodesTransaction(users, recoveryCodes, userId,
                                                      backupCodes, nextId)
              call == [op |-> "generateNewBackupCodes", userId |-> userId]
          IN  IF ~dbEnabled
              THEN /\ totpLast' = call @@ [threw |-> TRUE]
                   /\ UNCHANGED <<users, recoveryCodes, nextId>>
              ELSE /\ totpLast' = IF tx.ok
                                   THEN call @@ [threw |-> FALSE, result |-> backupCodes,
                                                 count |-> count]
                                   ELSE call @@ [threw |-> TRUE]
                   /\ users' = tx.users
                   /\ recoveryCodes' = tx.recoveryCodes
                   /\ nextId' = nextId + Cardinality(tx.recoveryCodes \ recoveryCodes)
    /\ UNCHANGED <<dbEnabled, dbProvider, now, issued>>

\* Time passes: one 30-second step.
Tick ==
    /\ now < MaxTime
    /\ now' = now + 1
    /\ totpLast' = [op |-> "tick", userId |-> Null, threw |-> FALSE]
    /\ UNCHANGED <<dbEnabled, dbProvider, users, recoveryCodes, nextId, issued>>

\* verifyTOTPCode(secret, token, window) called with the code the user's
\* authenticator shows `away` steps from now, or with a secret that does not
\* decode.
CallVerifyTOTPCode(secret, away, window) ==
    /\ LET token == IF secret \in Secrets
                    THEN AuthenticatorCode(secret, now + away)
                    ELSE NotACode
       IN  verifyLast' = [op |-> "verifyTOTPCode", secret |-> secret, away |-> away,
                          window |-> window,
                          result |-> verifyTOTPCode(secret, token, window)]
    /\ UNCHANGED <<dbEnabled, dbProvider, totpVars, totpWindow, guardLast, queryErrors>>

NoUser == [twoFactorEnabled |-> FALSE, twoFactorSecret |-> Null]

TOTPInit ==
    /\ DatabaseInit
    /\ users = [u \in Users |-> NoUser]
    /\ recoveryCodes = {}
    /\ nextId = 0
    /\ now = 0
    /\ issued = {}
    /\ totpLast = [op |-> "none", userId |-> Null, threw |-> FALSE]

TOTPNext ==
    \/ \E userId \in Users :
          generateTOTPSecret(userId) /\ UNCHANGED <<issued, rbacVars, tenantVars, serviceVars, restVars>>
    \/ \E userId \in Users, secret \in Secrets \cup {BadSecret},
          backupCodes \in Batches :
          \E token \in TokensFor(secret) :
             enable2FA(userId, secret, token, backupCodes)
             /\ UNCHANGED <<rbacVars, tenantVars, serviceVars, restVars>>
    \/ \E userId \in Users : disable2FA(userId) /\ UNCHANGED <<rbacVars, tenantVars, serviceVars, restVars>>
    \/ \E userId \in Users \cup {UnknownUser}, code \in CodeValues \cup TokensFor("s1") :
          verify2FA(userId, code) /\ UNCHANGED <<rbacVars, tenantVars, serviceVars, restVars>>
    \/ \E userId \in Users, code \in CodeValues \cup TokensFor("s1"),
          statement \in Statements :
          verify2FAFailing(userId, code, statement) /\ UNCHANGED <<rbacVars, tenantVars, serviceVars, restVars>>
    \/ \E userId \in Users, count \in 0..MaxBatch :
          generateNewBackupCodes(userId, count) /\ UNCHANGED <<rbacVars, tenantVars, serviceVars, restVars>>
    \/ Tick /\ UNCHANGED <<rbacVars, tenantVars, serviceVars, restVars>>

\* The setup flow alone, with the history of the secrets generateTOTPSecret
\* handed out.
SetupNext ==
    \/ \E userId \in Users :
          /\ generateTOTPSecret(userId)
          /\ issued' = issued \cup {<<userId, totpLast'.result>>}
          /\ UNCHANGED <<rbacVars, tenantVars, serviceVars, restVars>>
    \/ \E userId \in Users, secret \in Secrets \cup {BadSecret},
          backupCodes \in Batches :
          \E token \in TokensFor(secret) :
             enable2FA(userId, secret, token, backupCodes)
             /\ UNCHANGED <<rbacVars, tenantVars, serviceVars, restVars>>
    \/ \E userId \in Users : disable2FA(userId) /\ UNCHANGED <<rbacVars, tenantVars, serviceVars, restVars>>
    \/ Tick /\ UNCHANGED <<rbacVars, tenantVars, serviceVars, restVars>>

(***************************************************************************)
(* RBAC engine: the seeded tables.                                         *)
(***************************************************************************)
Orgs == {"A", "B"}

\* roles: the system-wide super-admin role the bootstrap creates
\* (createSuperAdminRole), and roles seedDefaultRoles creates per organization,
\* among them an organization-scoped role whose slug is also 'super-admin'.
Roles ==
    {[id |-> "r0",  organizationId |-> Null, slug |-> "super-admin"],
     [id |-> "rA1", organizationId |-> "A",  slug |-> "super-admin"],
     [id |-> "rA2", organizationId |-> "A",  slug |-> "admin"],
     [id |-> "rB2", organizationId |-> "B",  slug |-> "admin"]}

RoleIds == {r.id : r \in Roles}
RoleById(roleId) == CHOOSE r \in Roles : r.id = roleId
RoleSlugs == {r.slug : r \in Roles} \cup {"nobody"}

Permissions ==
    {[id |-> "p1", slug |-> "users.view", resource |-> "users", action |-> "view"],
     [id |-> "p2", slug |-> "roles.manage", resource |-> "roles", action |-> "manage"]}

RolePermissions ==
    {<<"r0", "p1">>, <<"r0", "p2">>, <<"rA1", "p1">>, <<"rA1", "p2">>,
     <<"rA2", "p1">>, <<"rB2", "p1">>}

\* PermissionCheck | string arguments: a slug string, {permission}, or
\* {resource, action}; 'ghost.perm' is a slug no Permission row has.
Checks ==
    {[form |-> "string", slug |-> "users.view"],
     [form |-> "string", slug |-> "roles.manage"],
     [form |-> "string", slug |-> "ghost.perm"],
     [form |-> "permission", slug |-> "users.view"],
     [form |-> "pair", resource |-> "users", action |-> "view"],
     [form |-> "pair", resource |-> "ghost", action |-> "perm"]}

(***************************************************************************)
(* RBAC engine: queries.                                                   *)
(***************************************************************************)

\* query.where(first) ... .where(second) on one drizzle select builder: the
\* builder keeps a single where clause and each call assigns it, so of two
\* calls on the same query the second one stands.
ChainedWhere(first, second) == second

\* eq(column, value): the SQL comparison column = value, with the value bound
\* as a parameter. It is what the code also writes for a null value, and in
\* SQL a comparison with NULL is not true of any row.
eq(column, value) == column # Null /\ value # Null /\ column = value

\* Faulty variant of getUserRoles: an error of the query is not caught as [].
getUserRolesIgnoringErrors(userId, organizationId) ==
    IF ~dbEnabled THEN {}
    ELSE {ur.roleId : ur \in
            {row \in userRoles :
                IF organizationId # Undefined
                THEN ChainedWhere(eq(row.userId, userId),
                                  eq(RoleById(row.roleId).organizationId, organizationId))
                ELSE eq(row.userId, userId)}}

\* getUserRoles(userId, organizationId?): user_roles joined with roles; the ids
\* of the roles returned (each carries its permissions). [] without a database.
getUserRoles(userId, organizationId) ==
    IF ~dbEnabled \/ "getUserRoles" \in queryErrors THEN {}
    ELSE {ur.roleId : ur \in
            {row \in userRoles :
                IF organizationId # Undefined
                THEN ChainedWhere(eq(row.userId, userId),
                                  eq(RoleById(row.roleId).organizationId, organizationId))
                ELSE eq(row.userId, userId)}}

PermissionsOfRole(roleId) ==
    {perm \in Permissions : <<roleId, perm.id>> \in RolePermissions}

\* getUserPermissions: the roles' permissions, one entry per permission id
getUserPermissions(userId, organizationId) ==
    UNION {PermissionsOfRole(roleId) : roleId \in getUserRoles(userId, organizationId)}

\* isSuperAdmin(userId): user_roles joined with roles,
\* .where(userId = userId).where(slug = 'super-admin').limit(1)
isSuperAdmin(userId) ==
    IF ~dbEnabled \/ "isSuperAdmin" \in queryErrors THEN FALSE
    ELSE \E row \in userRoles :
            ChainedWhere(eq(row.userId, userId),
                         eq(RoleById(row.roleId).slug, "super-admin"))

\* The test hasPermission applies to the permission list
CheckMatches(permissions, check) ==
    IF check.form = "string" \/ check.form = "permission"
    THEN \E perm \in permissions : perm.slug = check.slug
    ELSE \E perm \in permissions :
            perm.resource = check.resource /\ perm.action = check.action

\* Faulty variant of hasPermission: no super-admin short-circuit.
hasPermissionScopedOnly(userId, check, organizationId) ==
    [result |-> CheckMatches(getUserPermissions(userId, organizationId), check),
     lookups |-> <<"getUserRoles">>]

\* hasPermission(userId, check, organizationId?): the result and the lookups made
hasPermission(userId, check, organizationId) ==
    IF isSuperAdmin(userId)
    THEN [result |-> TRUE, lookups |-> <<"isSuperAdmin">>]
    ELSE [result |-> CheckMatches(getUserPermissions(userId, organizationId), check),
          lookups |-> <<"isSuperAdmin", "getUserRoles">>]

\* hasRole(userId, roleSlug, organizationId?): the result and the lookups made
hasRole(userId, roleSlug, organizationId) ==
    IF isSuperAdmin(userId)
    THEN [result |-> TRUE, lookups |-> <<"isSuperAdmin">>]
    ELSE [result |-> \E roleId \in getUserRoles(userId, organizationId) :
                        RoleById(roleId).slug = roleSlug,
          lookups |-> <<"isSuperAdmin", "getUserRoles">>]

\* Lists of checks, up to MaxChecks long: by slug, one of them of no permission.
CheckLists ==
    UNION {[1..n -> {check \in Checks : check.form = "string"}] : n \in 0..MaxChecks}

\* hasAnyPermission(userId, checks, organizationId?)
hasAnyPermission(userId, checks, organizationId) ==
    \E i \in DOMAIN checks : hasPermission(userId, checks[i], organizationId).result

\* hasAllPermissions(userId, checks, organizationId?)
hasAllPermissions(userId, checks, organizationId) ==
    \A i \in DOMAIN checks : hasPermission(userId, checks[i], organizationId).result

\* The role lookup of assignRole and removeRole: and(eq(slug, roleSlug),
\* organizationId ? eq(organizationId, organizationId) : eq(organizationId, null))
FindRole(roleSlug, organizationId) ==
    {r \in Roles : /\ eq(r.slug, roleSlug)
                   /\ IF organizationId # Null
                      THEN eq(r.organizationId, organizationId)
                      ELSE eq(r.organizationId, Null)}

\* The rows assignRole's second query finds
ExistingRole(rows, userId, roleId) ==
    {row \in rows : eq(row.userId, userId) /\ eq(row.roleId, roleId)}

\* insert(userRoles).values(row): (userId, roleId) is the primary key, so a row
\* that is already there makes the insert fail.
InsertUserRole(rows, row) ==
    IF \E old \in rows : old.userId = row.userId /\ old.roleId = row.roleId
    THEN [ok |-> FALSE, userRoles |-> rows]
    ELSE [ok |-> TRUE, userRoles |-> rows \cup {row}]

\* assignRole(userId, roleSlug, organizationId) run to its end
assignRoleOutcome(rows, userId, roleSlug, organizationId) ==
    IF \/ ~dbEnabled
       \/ "selectRole" \in queryErrors
       \/ FindRole(roleSlug, organizationId) = {}
    THEN [result |-> FALSE, already |-> FALSE, userRoles |-> rows]
    ELSE LET role == CHOOSE r \in FindRole(roleSlug, organizationId) : TRUE
             ins == InsertUserRole(rows, [userId |-> userId, roleId |-> role.id])
         IN  IF "selectUserRole" \in queryErrors
             THEN [result |-> FALSE, already |-> FALSE, userRoles |-> rows]
             ELSE IF ExistingRole(rows, userId, role.id) # {}
             THEN [result |-> TRUE, already |-> TRUE, userRoles |-> rows]
             ELSE IF "insertUserRole" \in queryErrors
             THEN [result |-> FALSE, already |-> FALSE, userRoles |-> rows]
             ELSE [result |-> ins.ok, already |-> FALSE, userRoles |-> ins.userRoles]

\* removeRole(userId, roleSlug, organizationId) run to its end
removeRoleOutcome(rows, userId, roleSlug, organizationId) ==
    IF \/ ~dbEnabled
       \/ "selectRole" \in queryErrors
       \/ FindRole(roleSlug, organizationId) = {}
       \/ "deleteUserRole" \in queryErrors
    THEN [result |-> FALSE, userRoles |-> rows]
    ELSE LET role == CHOOSE r \in FindRole(roleSlug, organizationId) : TRUE
         IN  [result |-> TRUE,
              userRoles |-> rows \ ExistingRole(rows, userId, role.id)]

(***************************************************************************)
(* RBAC engine: the operations.                                            *)
(***************************************************************************)
assignRole(userId, roleSlug, organizationId) ==
    LET out == assignRoleOutcome(userRoles, userId, roleSlug, organizationId)
    IN  /\ userRoles' = out.userRoles
        /\ rbacLast' = [op |-> "assignRole", userId |-> userId, slug |-> roleSlug,
                        organizationId |-> organizationId, result |-> out.result,
                        already |-> out.already]
        /\ UNCHANGED <<dbEnabled, dbProvider>>

removeRole(userId, roleSlug, organizationId) ==
    LET out == removeRoleOutcome(userRoles, userId, roleSlug, organizationId)
    IN  /\ userRoles' = out.userRoles
        /\ rbacLast' = [op |-> "removeRole", userId |-> userId, slug |-> roleSlug,
                        organizationId |-> organizationId, result |-> out.result]
        /\ UNCHANGED <<dbEnabled, dbProvider>>

\* assignSuperAdminRole(userId), which ensureSuperAdminExists calls at startup
\* for the user it has just created: the role is the first row with slug
\* 'super-admin' (no organization filter, no ordering), and the insert is
\* onConflictDoNothing.
assignSuperAdminRole(userId) ==
    /\ dbEnabled
    /\ rbacLast.op = "none"
    /\ \E role \in {r \in Roles : eq(r.slug, "super-admin")} :
          userRoles' = userRoles \cup {[userId |-> userId, roleId |-> role.id]}
    /\ rbacLast' = [op |-> "assignSuperAdminRole", userId |-> userId]
    /\ UNCHANGED <<dbEnabled, dbProvider>>

CallHasPermission(userId, check, organizationId) ==
    LET out == hasPermission(userId, check, organizationId)
    IN  /\ rbacLast' = [op |-> "hasPermission", userId |-> userId, check |-> check,
                        organizationId |-> organizationId, result |-> out.result,
                        lookups |-> out.lookups]
        /\ UNCHANGED <<dbEnabled, dbProvider, userRoles>>

CallHasRole(userId, roleSlug, organizationId) ==
    LET out == hasRole(userId, roleSlug, organizationId)
    IN  /\ rbacLast' = [op |-> "hasRole", userId |-> userId, slug |-> roleSlug,
                        organizationId |-> organizationId, result |-> out.result,
                        lookups |-> out.lookups]
        /\ UNCHANGED <<dbEnabled, dbProvider, userRoles>>

\* The user_roles rows the guards and the failing runs start from: none or one row.
GuardedRows ==
    {{}} \cup {{[userId |-> userId, roleId |-> roleId]} :
                 userId \in {"u1", "u2"}, roleId \in RoleIds}

\* A read of the fail-closed run; the result is all that is kept.
CallRead(op, userId, result) ==
    /\ rbacLast' = [op |-> op, userId |-> userId, result |-> result]
    /\ UNCHANGED <<dbEnabled, dbProvider, userRoles, queryErrors>>

\* The queries of the RBAC engine, by the function that sends them.
QueryNames ==
    {"isSuperAdmin", "getUserRoles", "selectRole", "selectUserRole",
     "insertUserRole", "deleteUserRole"}

\* The failures a run is under: none, one query, every query.
ErrorChoices == {{}, QueryNames} \cup {{query} : query \in QueryNames}

FailClosedInit ==
    /\ dbEnabled \in BOOLEAN
    /\ dbProvider = IF dbEnabled THEN "postgres" ELSE Null
    /\ queryErrors \in ErrorChoices
    /\ userRoles \in GuardedRows
    /\ rbacLast = [op |-> "none"]

FailClosedNext ==
    \/ \E userId \in Users, roleSlug \in RoleSlugs, organizationId \in Orgs \cup {Null} :
          /\ Cardinality(userRoles) < MaxRows
          /\ assignRole(userId, roleSlug, organizationId)
          /\ UNCHANGED <<totpVars, tenantVars, serviceVars, restVars>>
    \/ \E userId \in Users, roleSlug \in RoleSlugs, organizationId \in Orgs \cup {Null} :
          removeRole(userId, roleSlug, organizationId)
          /\ UNCHANGED <<totpVars, tenantVars, serviceVars, restVars>>
    \/ \E userId \in Users, check \in Checks,
          organizationId \in Orgs \cup {Null, Undefined} :
          CallHasPermission(userId, check, organizationId)
          /\ UNCHANGED <<totpVars, tenantVars, serviceVars, restVars>>
    \/ \E userId \in Users, roleSlug \in RoleSlugs,
          organizationId \in Orgs \cup {Null, Undefined} :
          CallHasRole(userId, roleSlug, organizationId)
          /\ UNCHANGED <<totpVars, tenantVars, serviceVars, restVars>>
    \/ \E userId \in Users, organizationId \in Orgs \cup {Null, Undefined} :
          CallRead("getUserRoles", userId, getUserRoles(userId, organizationId))
          /\ UNCHANGED <<totpVars, tenantVars, serviceVars, roundTripVars, guardLast>>
    \/ \E userId \in Users, organizationId \in Orgs \cup {Null, Undefined} :
          CallRead("getUserPermissions", userId,
                   getUserPermissions(userId, organizationId))
          /\ UNCHANGED <<totpVars, tenantVars, serviceVars, roundTripVars, guardLast>>
    \/ \E userId \in Users, checks \in CheckLists,
          organizationId \in Orgs \cup {Null, Undefined} :
          CallRead("hasAnyPermission", userId,
                   hasAnyPermission(userId, checks, organizationId))
          /\ UNCHANGED <<totpVars, tenantVars, serviceVars, roundTripVars, guardLast>>
    \/ \E userId \in Users, checks \in CheckLists,
          organizationId \in Orgs \cup {Null, Undefined} :
          CallRead("hasAllPermissions", userId,
                   hasAllPermissions(userId, checks, organizationId))
          /\ UNCHANGED <<totpVars, tenantVars, serviceVars, roundTripVars, guardLast>>

RBACInit ==
    /\ DatabaseInit
    /\ userRoles = {}
    /\ rbacLast = [op |-> "none"]

RBACNext ==
    \/ \E userId \in Users :
          assignSuperAdminRole(userId) /\ UNCHANGED <<totpVars, tenantVars, serviceVars, restVars>>
    \/ \E userId \in Users, roleSlug \in RoleSlugs, organizationId \in Orgs \cup {Null} :
          assignRole(userId, roleSlug, organizationId)
          /\ UNCHANGED <<totpVars, tenantVars, serviceVars, restVars>>
    \/ \E userId \in Users, roleSlug \in RoleSlugs, organizationId \in Orgs \cup {Null} :
          removeRole(userId, roleSlug, organizationId)
          /\ UNCHANGED <<totpVars, tenantVars, serviceVars, restVars>>
    \/ \E userId \in Users, check \in Checks,
          organizationId \in Orgs \cup {Null, Undefined} :
          CallHasPermission(userId, check, organizationId)
          /\ UNCHANGED <<totpVars, tenantVars, serviceVars, restVars>>
    \/ \E userId \in Users, roleSlug \in RoleSlugs,
          organizationId \in Orgs \cup {Null, Undefined} :
          CallHasRole(userId, roleSlug, organizationId)
          /\ UNCHANGED <<totpVars, tenantVars, serviceVars, restVars>>

(***************************************************************************)
(* Tenant context: one Nitro server handling several requests at once.     *)
(* multiTenant is enabled with the 'header' strategy.                      *)
(***************************************************************************)
Requests == {"q1", "q2", "q3"}

\* organizations rows
Organizations == {[id |-> "A", slug |-> "acme"], [id |-> "B", slug |-> "beta"]}

\* What the x-tenant-id header of a request may carry: an organization's slug,
\* a slug no organization has, or nothing.
TenantIds == {"acme", "beta", "nope", Null}

Strategy == "header"

\* new Map entry: map.set(key, value)
MapSet(map, key, value) ==
    [k \in DOMAIN map \cup {key} |-> IF k = key THEN value ELSE map[k]]

\* (event as any).__tenantContextId__ || 'default'
ContextKey(request) == IF eventId[request] # Undefined THEN eventId[request] ELSE "default"

\* getTenantContext(event): tenantContext.get(eventId) || null, as the set of
\* the context found ({} for null)
getTenantContext(request) ==
    IF ContextKey(request) \in DOMAIN tenantContext
    THEN {tenantContext[ContextKey(request)]}
    ELSE {}

\* getCurrentTenantId(event): context?.organizationId || null
getCurrentTenantId(request) ==
    IF getTenantContext(request) = {} THEN Null
    ELSE (CHOOSE context \in getTenantContext(request) : TRUE).organizationId

\* setTenantContext(event, context); the history variable stored remembers
\* what this request asked to store.
setTenantContext(request, context) ==
    /\ eventId' = [eventId EXCEPT ![request] = ContextKey(request)]
    /\ tenantContext' = MapSet(tenantContext, ContextKey(request), context)
    /\ stored' = [stored EXCEPT ![request] = context]
    /\ setCalls' = [setCalls EXCEPT ![request] = @ + 1]

\* detectTenantFromHeader: getHeader(event, headerName) || null
detectTenant(request) == reqSlug[request]

\* getOrganizationByTenant(tenantId): the organization's id, or null
getOrganizationByTenant(tenantId) ==
    IF ~dbEnabled \/ ~\E org \in Organizations : org.slug = tenantId THEN Null
    ELSE (CHOOSE org \in Organizations : org.slug = tenantId).id

NoTenant == [organizationId |-> Null, organization |-> Null, strategy |-> Strategy]

\* A request arrives: the 'request' hook calls initializeTenantContext, which
\* detects the tenant. Without a tenant identifier it stores the empty context
\* at once; with one it awaits the organization lookup.
BeginRequest(request, tenantId) ==
    /\ reqPc[request] = "new"
    /\ reqSlug' = [reqSlug EXCEPT ![request] = tenantId]
    /\ IF tenantId = Null
       THEN /\ setTenantContext(request, NoTenant)
            /\ reqPc' = [reqPc EXCEPT ![request] = "initialized"]
       ELSE /\ reqPc' = [reqPc EXCEPT ![request] = "lookup"]
            /\ UNCHANGED <<tenantContext, eventId, stored, setCalls>>
    /\ UNCHANGED <<dbEnabled, dbProvider, got, tenantConfig, detectLast>>

\* The lookup returns and initializeTenantContext stores the context.
FinishInitialize(request) ==
    /\ reqPc[request] = "lookup"
    /\ LET organization == getOrganizationByTenant(detectTenant(request))
       IN  IF organization = Null
           THEN setTenantContext(request, NoTenant)
           ELSE setTenantContext(request, [organizationId |-> organization,
                                           organization |-> organization,
                                           strategy |-> Strategy])
    /\ reqPc' = [reqPc EXCEPT ![request] = "initialized"]
    /\ UNCHANGED <<dbEnabled, dbProvider, reqSlug, got, tenantConfig, detectLast>>

\* The request's handler (requirePermission, requireRole, an API route) reads
\* the tenant: getCurrentTenantId(event).
HandlerReadsTenant(request) ==
    /\ reqPc[request] = "initialized"
    /\ got' = [got EXCEPT ![request] = getCurrentTenantId(request)]
    /\ reqPc' = [reqPc EXCEPT ![request] = "done"]
    /\ UNCHANGED <<dbEnabled, dbProvider, tenantContext, eventId, reqSlug, stored,
                   setCalls, tenantConfig, detectLast>>

TenantInit ==
    /\ DatabaseInit
    /\ tenantContext = <<>>
    /\ eventId = [r \in Requests |-> Undefined]
    /\ reqPc = [r \in Requests |-> "new"]
    /\ reqSlug = [r \in Requests |-> Null]
    /\ stored = [r \in Requests |-> NoTenant]
    /\ got = [r \in Requests |-> Null]
    /\ setCalls = [r \in Requests |-> 0]
    /\ tenantConfig = [enabled |-> TRUE, strategy |-> Strategy]
    /\ detectLast = [op |-> "none"]

TenantNext ==
    \/ \E request \in Requests, tenantId \in TenantIds :
          BeginRequest(request, tenantId) /\ UNCHANGED <<totpVars, rbacVars, restVars, serviceVars>>
    \/ \E request \in Requests :
          FinishInitialize(request) /\ UNCHANGED <<totpVars, rbacVars, restVars, serviceVars>>
    \/ \E request \in Requests :
          HandlerReadsTenant(request) /\ UNCHANGED <<totpVars, rbacVars, restVars, serviceVars>>

(***************************************************************************)
(* The 'request' hook of the tenant plugin: initializeTenantContext on     *)
(* every path, under the configurations of multi-tenancy.                  *)
(***************************************************************************)

\* A server whose configuration has no multiTenant.enabled.
SingleTenant == [enabled |-> FALSE, strategy |-> "subdomain"]

TenantConfigs ==
    {SingleTenant, [enabled |-> TRUE, strategy |-> "header"],
     [enabled |-> TRUE, strategy |-> "path"]}

ContextFor(organization, strategy) ==
    [organizationId |-> organization, organization |-> organization,
     strategy |-> strategy]

\* Multi-tenancy is not enabled: the default context is stored at once.
InitializeSingleTenant(request) ==
    /\ ~tenantConfig.enabled
    /\ reqPc[request] = "new"
    /\ setTenantContext(request, ContextFor(Null, "subdomain"))
    /\ reqPc' = [reqPc EXCEPT ![request] = "initialized"]
    /\ UNCHANGED <<dbEnabled, dbProvider, reqSlug, got, tenantConfig, detectLast>>

\* detectTenant answers tenantId: without one the empty context is stored at
\* once, with one the organization lookup is awaited.
InitializeDetects(request, tenantId) ==
    /\ tenantConfig.enabled
    /\ reqPc[request] = "new"
    /\ reqSlug' = [reqSlug EXCEPT ![request] = tenantId]
    /\ IF tenantId = Null
       THEN /\ setTenantContext(request, ContextFor(Null, tenantConfig.strategy))
            /\ reqPc' = [reqPc EXCEPT ![request] = "initialized"]
       ELSE /\ reqPc' = [reqPc EXCEPT ![request] = "lookup"]
            /\ UNCHANGED <<tenantContext, eventId, stored, setCalls>>
    /\ UNCHANGED <<dbEnabled, dbProvider, got, tenantConfig, detectLast>>

\* detectTenantFromPath raises: new URL(url, `http://${host}`) with a host
\* header that is no URL host. initializeTenantContext rejects, the hook
\* catches and logs, and the request goes on to its handler.
InitializeDetectionRaises(request) ==
    /\ tenantConfig.enabled
    /\ tenantConfig.strategy = "path"
    /\ reqPc[request] = "new"
    /\ reqPc' = [reqPc EXCEPT ![request] = "initialized"]
    /\ UNCHANGED <<dbEnabled, dbProvider, tenantContext, eventId, reqSlug, stored,
                   got, setCalls, tenantConfig, detectLast>>

\* getOrganizationByTenant answers, also when its query raises (caught there,
\* null), and the context is stored.
InitializeLooksUp(request, raises) ==
    /\ reqPc[request] = "lookup"
    /\ raises => dbEnabled
    /\ LET organization == IF raises THEN Null
                           ELSE getOrganizationByTenant(reqSlug[request])
       IN  setTenantContext(request, ContextFor(organization, tenantConfig.strategy))
    /\ reqPc' = [reqPc EXCEPT ![request] = "initialized"]
    /\ UNCHANGED <<dbEnabled, dbProvider, reqSlug, got, tenantConfig, detectLast>>

InitializeInit ==
    /\ DatabaseInit
    /\ tenantContext = <<>>
    /\ eventId = [r \in Requests |-> Undefined]
    /\ reqPc = [r \in Requests |-> "new"]
    /\ reqSlug = [r \in Requests |-> Null]
    /\ stored = [r \in Requests |-> Null]
    /\ got = [r \in Requests |-> Null]
    /\ setCalls = [r \in Requests |-> 0]
    /\ tenantConfig \in TenantConfigs
    /\ detectLast = [op |-> "none"]

InitializeNext ==
    \/ \E request \in Requests :
          InitializeSingleTenant(request) /\ UNCHANGED <<totpVars, rbacVars, restVars, serviceVars>>
    \/ \E request \in Requests, tenantId \in TenantIds :
          InitializeDetects(request, tenantId)
          /\ UNCHANGED <<totpVars, rbacVars, restVars, serviceVars>>
    \/ \E request \in Requests :
          InitializeDetectionRaises(request)
          /\ UNCHANGED <<totpVars, rbacVars, restVars, serviceVars>>
    \/ \E request \in Requests, raises \in BOOLEAN :
          InitializeLooksUp(request, raises)
          /\ UNCHANGED <<totpVars, rbacVars, restVars, serviceVars>>
    \/ \E request \in Requests :
          HandlerReadsTenant(request) /\ UNCHANGED <<totpVars, rbacVars, restVars, serviceVars>>

(***************************************************************************)
(* Tenant detection from the host header (subdomain strategy).             *)
(*                                                                         *)
(* A host is the sequence of its pieces: a piece is either the separator   *)
(* "." or a run of other characters, so that <<"acme", ".", "example",     *)
(* ".", "com">> is acme.example.com and <<".", ".", "com">> is ..com.      *)
(***************************************************************************)

HostPieces == {".", "acme", "www", "api", "com"}

\* The hosts of the examples: a port, the remaining reserved labels, and a
\* host with runs of dots.
NamedHosts ==
    {<<"localhost:3000">>,
     <<"admin", ".", "example", ".", "com">>,
     <<"app", ".", "example", ".", "com">>,
     <<"acme", ".", "example", ".", "com">>,
     <<".", ".", ".", "invalid", ".", ".", ".", "example", ".", "com">>}

Hosts == NamedHosts \cup UNION {[1..n -> HostPieces] : n \in 0..MaxPieces}

\* The request headers: without a host header, or with one.
HeaderValues == {EmptyRecord} \cup {[host |-> host] : host \in Hosts}

\* getHeader(event, 'host')
getHeader(headers, name) ==
    IF name \in DOMAIN headers THEN headers[name] ELSE Undefined

\* host.split('.'): the labels between the separators, the empty ones too.
RECURSIVE split(_, _)
split(host, label) ==
    IF host = <<>> THEN <<label>>
    ELSE IF Head(host) = "." THEN <<label>> \o split(Tail(host), "")
    ELSE split(Tail(host), label \o Head(host))

SkippedSubdomains == {"www", "api", "admin", "app"}

\* detectTenantFromSubdomain(event); !host is true of a missing header and of
\* the empty string.
detectTenantFromSubdomain(headers) ==
    IF "host" \notin DOMAIN headers \/ getHeader(headers, "host") = <<>> THEN Null
    ELSE LET hostParts == split(getHeader(headers, "host"), "")
             subdomain == hostParts[1]
         IN  IF Len(hostParts) < 3 THEN Null
             ELSE IF subdomain \in SkippedSubdomains THEN Null
             ELSE subdomain

\* config.multiTenant: disabled, the subdomain strategy, the custom strategy
\* (whose resolver is not implemented and resolves to null), and a strategy
\* the switch does not know.
MultiTenantConfigs ==
    {[enabled |-> FALSE, strategy |-> "subdomain"],
     [enabled |-> TRUE, strategy |-> "subdomain"],
     [enabled |-> TRUE, strategy |-> "custom"],
     [enabled |-> TRUE, strategy |-> "custom", resolver |-> "resolver"],
     [enabled |-> TRUE, strategy |-> "other"]}

\* What the configured resolver function answers for a request: no tenant, or
\* a tenant identifier.
ResolverAnswers == {Null, "acme"}

\* detectTenantFromCustomResolver(event, resolverPath): without a resolver
\* null; with one, the body of the try block is `return null`, the resolver is
\* not called.
detectTenantFromCustomResolver(multiTenant, resolved) ==
    IF "resolver" \notin DOMAIN multiTenant THEN Null ELSE Null

\* detectTenant(event), for the strategies that read the host or nothing.
detectTenantByStrategy(multiTenant, headers, resolved) ==
    IF ~multiTenant.enabled THEN Null
    ELSE IF multiTenant.strategy = "subdomain" THEN detectTenantFromSubdomain(headers)
    ELSE IF multiTenant.strategy = "custom"
    THEN detectTenantFromCustomResolver(multiTenant, resolved)
    ELSE Null

\* A request that arrived is passed to detectTenant.
CallDetectTenant ==
    /\ detectLast.op = "arrived"
    /\ detectLast' = [op |-> "detectTenant", headers |-> detectLast.headers,
                      multiTenant |-> detectLast.multiTenant,
                      resolved |-> detectLast.resolved,
                      result |-> detectTenantByStrategy(detectLast.multiTenant,
                                                        detectLast.headers,
                                                        detectLast.resolved)]
    /\ UNCHANGED <<dbEnabled, dbProvider, tenantContext, eventId, reqPc, reqSlug,
                   stored, got, setCalls, tenantConfig>>

SubdomainInit ==
    /\ DatabaseInit
    /\ tenantContext = <<>>
    /\ eventId = <<>>
    /\ reqPc = <<>>
    /\ reqSlug = <<>>
    /\ stored = <<>>
    /\ got = <<>>
    /\ setCalls = <<>>
    /\ tenantConfig = SingleTenant
    /\ detectLast \in {[op |-> "arrived", headers |-> headers,
                         multiTenant |-> multiTenant, resolved |-> resolved] :
                            headers \in HeaderValues,
                            multiTenant \in MultiTenantConfigs,
                            resolved \in ResolverAnswers}

SubdomainNext ==
    CallDetectTenant /\ UNCHANGED <<totpVars, rbacVars, restVars, serviceVars>>

(***************************************************************************)
(* Session guards: requirePermission, requireRole, getUserSessionWithRBAC. *)
(***************************************************************************)

\* What getUserSession(event) resolves to, {user?, ...}: no user field, a null
\* user, a user (kept as its id), and a further field without a user.
Sessions ==
    {EmptyRecord, [user |-> Null], [user |-> "u1"], [user |-> "u2"], [id |-> "sid"]}

\* session.user?.id
SessionUserId(session) ==
    IF "user" \in DOMAIN session THEN session.user ELSE Undefined

\* !session.user?.id is false
Authenticated(session) == SessionUserId(session) \notin {Null, Undefined}

\* The options a caller passes: none, a status code, a message, both, and both
\* with values JavaScript takes as false.
OptionValues ==
    {EmptyRecord, [statusCode |-> 418], [message |-> "Custom"],
     [statusCode |-> 418, message |-> "Custom"], [statusCode |-> 0, message |-> ""]}

\* options.statusCode || 403
StatusCodeOr(options, default) ==
    IF "statusCode" \in DOMAIN options /\ options.statusCode # 0
    THEN options.statusCode ELSE default

\* options.message || '...'
MessageOr(options, default) ==
    IF "message" \in DOMAIN options /\ options.message # ""
    THEN options.message ELSE default

\* What a guard does after getUserSession: 401 before anything else; else the
\* tenant scope is read and the check made; 403 (or the options) when it fails.
GuardOutcome(session, access, options, message) ==
    IF ~Authenticated(session)
    THEN [threw |-> TRUE, statusCode |-> 401,
          statusMessage |-> "Authentication required",
          tenantResolved |-> FALSE, lookups |-> <<>>]
    ELSE IF ~access.result
    THEN [threw |-> TRUE, statusCode |-> StatusCodeOr(options, 403),
          statusMessage |-> MessageOr(options, message),
          tenantResolved |-> TRUE, lookups |-> access.lookups]
    ELSE [threw |-> FALSE, tenantResolved |-> TRUE, lookups |-> access.lookups]

\* Faulty variant of requirePermissionOutcome: the check is made before the
\* session is looked at.
requirePermissionCheckingFirst(session, check, organizationId, options) ==
    LET userId == IF Authenticated(session) THEN SessionUserId(session) ELSE "u1"
        access == hasPermission(userId, check, organizationId)
    IN  IF ~access.result
        THEN [threw |-> TRUE, statusCode |-> StatusCodeOr(options, 403),
              statusMessage |-> MessageOr(options, "Insufficient permissions"),
              tenantResolved |-> TRUE, lookups |-> access.lookups]
        ELSE GuardOutcome(session, access, options, "Insufficient permissions")

\* requirePermission(event, check, options) with the session and the tenant
\* scope the event resolves to.
requirePermissionOutcome(session, check, organizationId, options) ==
    GuardOutcome(session,
                 IF Authenticated(session)
                 THEN hasPermission(SessionUserId(session), check, organizationId)
                 ELSE [result |-> FALSE, lookups |-> <<>>],
                 options, "Insufficient permissions")

\* requireRole(event, roleSlug, options)
requireRoleOutcome(session, roleSlug, organizationId, options) ==
    GuardOutcome(session,
                 IF Authenticated(session)
                 THEN hasRole(SessionUserId(session), roleSlug, organizationId)
                 ELSE [result |-> FALSE, lookups |-> <<>>],
                 options, "Insufficient role privileges")

\* The call as guardLast keeps it.
GuardCall(op, session, options, hasAccess, outcome) ==
    [op |-> op, session |-> session, options |-> options, hasAccess |-> hasAccess,
     outcome |-> outcome]

requirePermission(session, check, organizationId, options) ==
    /\ guardLast' =
          GuardCall("requirePermission", session, options,
                    /\ Authenticated(session)
                    /\ hasPermission(SessionUserId(session), check,
                                     organizationId).result,
                    requirePermissionOutcome(session, check, organizationId, options))
    /\ UNCHANGED <<dbEnabled, dbProvider, totpVars, rbacVars, tenantVars, serviceVars, roundTripVars,
                   queryErrors>>

requireRole(session, roleSlug, organizationId, options) ==
    /\ guardLast' =
          GuardCall("requireRole", session, options,
                    /\ Authenticated(session)
                    /\ hasRole(SessionUserId(session), roleSlug, organizationId).result,
                    requireRoleOutcome(session, roleSlug, organizationId, options))
    /\ UNCHANGED <<dbEnabled, dbProvider, totpVars, rbacVars, tenantVars, serviceVars, roundTripVars,
                   queryErrors>>

\* getUserSessionWithRBAC(event): the session spread, with roles and
\* permissions; for a session user also user.isSuperAdmin. Lists are kept as
\* sets.
getUserSessionWithRBACOutcome(session, organizationId) ==
    IF ~Authenticated(session)
    THEN [result |-> [roles |-> {}, permissions |-> {}] @@ session,
          lookups |-> <<>>]
    ELSE LET userId == SessionUserId(session)
         IN  [result |-> [user |-> [id |-> userId,
                                    isSuperAdmin |-> isSuperAdmin(userId)],
                          roles |-> getUserRoles(userId, organizationId),
                          permissions |-> getUserPermissions(userId, organizationId)]
                         @@ session,
              lookups |-> <<"getUserRoles", "getUserPermissions", "isSuperAdmin">>]

getUserSessionWithRBAC(session, organizationId) ==
    /\ guardLast' = [op |-> "getUserSessionWithRBAC", session |-> session,
                     outcome |-> getUserSessionWithRBACOutcome(session, organizationId)]
    /\ UNCHANGED <<dbEnabled, dbProvider, totpVars, rbacVars, tenantVars, serviceVars, roundTripVars,
                   queryErrors>>

GuardInit ==
    /\ DatabaseInit
    /\ userRoles \in GuardedRows
    /\ rbacLast = [op |-> "none"]
    /\ guardLast = [op |-> "none"]

GuardNext ==
    \/ \E session \in Sessions, check \in Checks, organizationId \in Orgs \cup {Null},
          options \in OptionValues :
          requirePermission(session, check, organizationId, options)
    \/ \E session \in Sessions, roleSlug \in RoleSlugs, organizationId \in Orgs \cup {Null},
          options \in OptionValues :
          requireRole(session, roleSlug, organizationId, options)
    \/ \E session \in Sessions, organizationId \in Orgs \cup {Null} :
          getUserSessionWithRBAC(session, organizationId)

(***************************************************************************)
(* TOTP round trip: provisioning by generateTOTPSecret, verification by    *)
(* verifyTOTPCode.                                                         *)
(***************************************************************************)
RoundTripInit ==
    /\ DatabaseInit
    /\ totpWindow \in ConfiguredWindows
    /\ verifyLast = [op |-> "none"]

RoundTripNext ==
    \/ \E secret \in Secrets \cup {BadSecret}, away \in -StepsAway..StepsAway,
          window \in 0..DefaultWindow :
          CallVerifyTOTPCode(secret, away, window) /\ UNCHANGED <<rbacVars, tenantVars, serviceVars>>
    \/ Tick /\ UNCHANGED <<rbacVars, tenantVars, serviceVars, restVars>>

(***************************************************************************)
(* The specifications. Each runs one engine; the others stay at rest.      *)
(***************************************************************************)
TOTPIdle ==
    /\ users = [u \in Users |-> NoUser]
    /\ recoveryCodes = {}
    /\ nextId = 0
    /\ now = 0
    /\ issued = {}
    /\ totpLast = [op |-> "none", userId |-> Null, threw |-> FALSE]

RBACIdle ==
    /\ userRoles = {}
    /\ rbacLast = [op |-> "none"]

(***************************************************************************)
(* Startup: the database plugin, the seeds and the super-admin account.    *)
(*                                                                         *)
(* A login is the sequence of its characters; a password is a string. The  *)
(* tables are handled as one record db = [accounts, roles, permissions,    *)
(* rolePermissions, userRoles, nextId] while a routine runs.               *)
(***************************************************************************)

LoginChars == {"a", "@", ".", " "}

Logins == UNION {[1..n -> LoginChars] : n \in 0..MaxLogin}

\* Logins of the examples: an address, and strings that are none.
NamedLogins ==
    {<<"a", "@", "a", ".", "a">>, <<"a", "@", "a">>, <<"a", " ", "@", "a", ".", "a">>}

Passwords == {"", "short", "SuperSecurePassword123!", "RotatedPassword456!"}

\* process.env with each of the two variables set or not.
EnvsOver(logins) ==
    {EmptyRecord}
    \cup {[login |-> login] : login \in logins}
    \cup {[password |-> password] : password \in Passwords}
    \cup {[login |-> login, password |-> password] :
            login \in logins, password \in Passwords}

\* getSuperAdminCredentials(): null, as the empty set, when a variable is
\* missing or empty.
getSuperAdminCredentials(environment) ==
    IF \/ "login" \notin DOMAIN environment
       \/ "password" \notin DOMAIN environment
    THEN {}
    ELSE IF environment.login = <<>> \/ environment.password = "" THEN {}
    ELSE {[login |-> environment.login, password |-> environment.password]}

NotSpaceOrAt(char) == char \notin {" ", "@"}

\* /^[^\s@]+@[^\s@][^\s.@]*\.[^\s@]+$/.test(login)
EmailShaped(login) ==
    \E at \in 2..Len(login), dot \in 3..Len(login) :
        /\ at + 1 < dot
        /\ dot < Len(login)
        /\ \A i \in 1..(at - 1) : NotSpaceOrAt(login[i])
        /\ login[at] = "@"
        /\ NotSpaceOrAt(login[at + 1])
        /\ \A i \in (at + 2)..(dot - 1) : NotSpaceOrAt(login[i]) /\ login[i] # "."
        /\ login[dot] = "."
        /\ \A i \in (dot + 1)..Len(login) : NotSpaceOrAt(login[i])

\* validateSuperAdminCredentials(): the error it throws, or "none".
validateSuperAdminCredentials(environment) ==
    IF ~dbEnabled THEN "none"
    ELSE IF getSuperAdminCredentials(environment) = {} THEN "credentials required"
    ELSE IF Len(environment.password) < 8 THEN "password too short"
    ELSE IF ~EmailShaped(environment.login) THEN "login not an email"
    ELSE "none"

\* hashPassword(password): scrypt with a fresh random salt for every hash.
Salts == {"salt1", "salt2"}

hashPassword(password, salt) == [plain |-> password, salt |-> salt]

DefaultPermissionSlugs == <<"users.view", "roles.manage">>

SuperAdminPermissionSlugs ==
    <<"system.admin", "organizations.manage-all", "users.manage-all", "audit.view-all">>

Fresh ==
    [accounts |-> {}, roles |-> {}, permissions |-> {}, rolePermissions |-> {},
     userRoles |-> {}, nextId |-> 0]

\* for (const permission of ...) insert(permissions).values({id: randomUUID(),
\* ...permission}).onConflictDoNothing(): a slug that exists is skipped.
RECURSIVE InsertPermissions(_, _)
InsertPermissions(db, slugs) ==
    IF slugs = <<>> THEN db
    ELSE LET slug == Head(slugs)
             row == [id |-> db.nextId, slug |-> slug]
         IN  InsertPermissions(
                 [db EXCEPT !.nextId = @ + 1,
                            !.permissions =
                                IF \E p \in @ : p.slug = slug THEN @ ELSE @ \cup {row}],
                 Tail(slugs))

seedDefaultPermissions(db) == InsertPermissions(db, DefaultPermissionSlugs)

\* seedDefaultRoles(db, organizationId): the first of its roles, the
\* organization's own 'super-admin', is inserted; the select of its
\* permissions then calls schema.permissions.slug.in, which no column has, and
\* the routine ends there with a TypeError.
seedDefaultRoles(db, organizationId) ==
    [db EXCEPT !.nextId = @ + 1,
               !.roles = @ \cup {[id |-> db.nextId, organizationId |-> organizationId,
                                  slug |-> "super-admin"]}]

\* The second loop of createSuperAdminRole: each permission is inserted under
\* a fresh id unless its slug exists, and the role is granted that id; when
\* the slug existed the grant references no permission row and the foreign
\* key rejects it.
RECURSIVE GrantSuperAdminPermissions(_, _, _)
GrantSuperAdminPermissions(db, roleId, slugs) ==
    IF slugs = <<>> THEN [db |-> db, raised |-> FALSE]
    ELSE LET permissionId == db.nextId
             conflict == \E p \in db.permissions : p.slug = Head(slugs)
             inserted ==
                 [db EXCEPT !.nextId = @ + 1,
                            !.permissions =
                                IF conflict THEN @
                                ELSE @ \cup {[id |-> permissionId, slug |-> Head(slugs)]}]
         IN  IF conflict THEN [db |-> inserted, raised |-> TRUE]
             ELSE GrantSuperAdminPermissions(
                      [inserted EXCEPT !.rolePermissions =
                           @ \cup {[roleId |-> roleId, permissionId |-> permissionId]}],
                      roleId, Tail(slugs))

\* Faulty variant of createSuperAdminRole: only the fixed permissions are granted.
createSuperAdminRoleFixedOnly(db) ==
    LET roleId == db.nextId
        withRole == [db EXCEPT !.nextId = @ + 1,
                               !.roles = @ \cup {[id |-> roleId, organizationId |-> Null,
                                                  slug |-> "super-admin"]}]
        out == GrantSuperAdminPermissions(withRole, roleId, SuperAdminPermissionSlugs)
    IN  [db |-> out.db, raised |-> out.raised, roleId |-> roleId]

\* createSuperAdminRole(): the role, a grant for every permission there is,
\* the fixed permissions and their grants.
createSuperAdminRole(db) ==
    LET roleId == db.nextId
        withRole == [db EXCEPT !.nextId = @ + 1,
                               !.roles = @ \cup {[id |-> roleId, organizationId |-> Null,
                                                  slug |-> "super-admin"]}]
        granted == [withRole EXCEPT !.rolePermissions =
                       @ \cup {[roleId |-> roleId, permissionId |-> p.id] :
                                 p \in withRole.permissions}]
        out == GrantSuperAdminPermissions(granted, roleId, SuperAdminPermissionSlugs)
    IN  [db |-> out.db, raised |-> out.raised, roleId |-> roleId]

\* What select ... limit(1) may return of the rows that match: any one of
\* them, or no row.
NoRow == [id |-> Null]

FirstRow(rows) == IF rows = {} THEN {NoRow} ELSE rows

\* A select the database answers with an error instead of rows
DatabaseError == [id |-> "error"]

\* select().from(roles).where(eq(roles.slug, 'super-admin'))
SuperAdminRoles(db) == {r \in db.roles : r.slug = "super-admin"}

\* assignSuperAdminRole(userId) on the tables db, `role` being the row its
\* select returned; without such a row the role is created first, and an
\* error of the select goes up to the caller.
assignSuperAdminRoleOn(db, userId, role) ==
    IF role = DatabaseError THEN [db |-> db, raised |-> TRUE]
    ELSE IF role = NoRow
    THEN LET created == createSuperAdminRole(db)
         IN  IF created.raised THEN [db |-> created.db, raised |-> TRUE]
             ELSE [db |-> [created.db EXCEPT !.userRoles =
                              @ \cup {[userId |-> userId, roleId |-> created.roleId]}],
                   raised |-> FALSE]
    ELSE [db |-> [db EXCEPT !.userRoles =
                     @ \cup {[userId |-> userId, roleId |-> role.id]}],
          raised |-> FALSE]

\* select().from(users).where(eq(users.email, credentials.login))
AccountsWithLogin(db, environment) ==
    {u \in db.accounts : \E c \in getSuperAdminCredentials(environment) :
                            u.email = c.login}

\* ensureSuperAdminExists(), `user` and `role` being the rows its selects
\* returned, `salt` the salt of this run's hash and `time` its clock; the
\* result's `user` is the id of the user it returns, -1 when it returns none.
ensureSuperAdminExists(db, environment, salt, time, user, role) ==
    IF ~dbEnabled \/ getSuperAdminCredentials(environment) = {}
    THEN [db |-> db, raised |-> FALSE, ensured |-> FALSE, user |-> -1]
    ELSE LET hashedPassword == hashPassword(environment.password, salt)
         IN  IF user # NoRow
             THEN [db |-> [db EXCEPT !.accounts =
                              {IF u.id = user.id /\ u.password # hashedPassword
                               THEN [u EXCEPT !.password = hashedPassword,
                                              !.updatedAt = time]
                               ELSE u : u \in @}],
                   raised |-> FALSE, ensured |-> TRUE, user |-> user.id]
             ELSE LET userId == db.nextId
                      inserted ==
                          [db EXCEPT !.nextId = @ + 1,
                                     !.accounts =
                                         @ \cup {[id |-> userId,
                                                  organizationId |-> Null,
                                                  email |-> environment.login,
                                                  password |-> hashedPassword,
                                                  updatedAt |-> time]}]
                      assigned == assignSuperAdminRoleOn(inserted, userId, role)
                  IN  [db |-> assigned.db, raised |-> assigned.raised,
                       ensured |-> ~assigned.raised,
                       user |-> IF assigned.raised THEN -1 ELSE userId]

\* verifyPassword(hashedPassword, plainPassword): the hash is one of the plain
\* password, under whatever salt.
verifyPassword(hashedPassword, plainPassword) == hashedPassword.plain = plainPassword

\* isSuperAdmin(userId) on the tables db
isSuperAdminOn(db, userId) ==
    \E row \in db.userRoles, role \in db.roles :
        /\ row.roleId = role.id
        /\ ChainedWhere(row.userId = userId, eq(role.slug, "super-admin"))

\* verifySuperAdmin(email, password): the id of the user it returns, -1 for null
verifySuperAdmin(db, email, password) ==
    LET found == {u \in db.accounts : eq(u.email, email)}
    IN  IF ~dbEnabled \/ found = {} THEN -1
        ELSE LET userData == CHOOSE u \in found : TRUE
             IN  IF ~isSuperAdminOn(db, userData.id) THEN -1
                 ELSE IF ~verifyPassword(userData.password, password) THEN -1
                 ELSE userData.id

\* initializeDatabaseData(db): validate, seed when there is no permission,
\* ensure the super admin.
initializeDatabaseData(db, environment, salt, time, user, role) ==
    LET error == validateSuperAdminCredentials(environment)
        seeded == IF db.permissions = {} THEN seedDefaultPermissions(db) ELSE db
        out == ensureSuperAdminExists(seeded, environment, salt, time, user, role)
    IN  IF error # "none"
        THEN [db |-> db, error |-> error, seeded |-> FALSE, ensured |-> FALSE,
              user |-> -1]
        ELSE [db |-> out.db,
              error |-> IF out.raised THEN "database error" ELSE "none",
              seeded |-> db.permissions = {}, ensured |-> out.ensured,
              user |-> out.user]

\* The database plugin: with a database it runs initializeDatabaseData in a
\* try block whose catch logs the error; either way the plugin returns and
\* the server goes on to serve requests.
databasePlugin(db, environment, salt, time, user, role) ==
    IF ~dbEnabled
    THEN [db |-> db, error |-> "none", seeded |-> FALSE, ensured |-> FALSE,
          user |-> -1, logged |-> FALSE, serving |-> TRUE]
    ELSE LET out == initializeDatabaseData(db, environment, salt, time, user, role)
         IN  out @@ [logged |-> out.error # "none", serving |-> TRUE]

\* The tables as they are.
Tables ==
    [accounts |-> accountRows, roles |-> roleRows, permissions |-> permissionRows,
     rolePermissions |-> rolePermissionRows, userRoles |-> userRoles,
     nextId |-> bootNextId]

\* The server process starts. The record startup keeps what the plugin did,
\* the environment it ran under and the tables it found.
Startup ==
    /\ startups < MaxStartups
    /\ \E salt \in Salts, user \in FirstRow(AccountsWithLogin(Tables, env)),
          role \in FirstRow(SuperAdminRoles(Tables)) \cup {DatabaseError} :
          LET out == databasePlugin(Tables, env, salt, startups + 1, user, role)
          IN  /\ accountRows' = out.db.accounts
              /\ roleRows' = out.db.roles
              /\ permissionRows' = out.db.permissions
              /\ rolePermissionRows' = out.db.rolePermissions
              /\ userRoles' = out.db.userRoles
              /\ bootNextId' = out.db.nextId
              /\ startup' = [op |-> "started", error |-> out.error,
                             seeded |-> out.seeded, ensured |-> out.ensured,
                             user |-> out.user,
                             logged |-> out.logged, serving |-> out.serving,
                             env |-> env, before |-> Tables,
                             rerun |-> (startup.op = "started" /\ startup.ensured
                                        /\ startup.env = env)]
    /\ startups' = startups + 1
    /\ UNCHANGED <<dbEnabled, dbProvider, env, rbacLast>>

\* Between two starts the operator rotates the configured password.
RotatePassword(password) ==
    /\ "password" \in DOMAIN env
    /\ env.password # password
    /\ startup.op = "started"
    /\ env' = [env EXCEPT !.password = password]
    /\ startup' = [op |-> "rotated"]
    /\ UNCHANGED <<dbEnabled, dbProvider, accountRows, roleRows, permissionRows,
                   rolePermissionRows, bootNextId, startups, userRoles, rbacLast>>

\* The databases a server may start on: an empty one, and one in which an
\* organization was provisioned (createDefaultOrganization) before any
\* super admin was configured.
StartingTables ==
    {Fresh, seedDefaultRoles(seedDefaultPermissions(Fresh), "A")}

BootstrapInitOver(logins) ==
    /\ DatabaseInit
    /\ env \in EnvsOver(logins)
    /\ \E db \in StartingTables :
          /\ accountRows = db.accounts
          /\ roleRows = db.roles
          /\ permissionRows = db.permissions
          /\ rolePermissionRows = db.rolePermissions
          /\ userRoles = db.userRoles
          /\ bootNextId = db.nextId
    /\ startups = 0
    /\ startup = [op |-> "none"]
    /\ rbacLast = [op |-> "none"]

BootstrapInit == BootstrapInitOver(NamedLogins)

BootstrapNext ==
    \/ Startup /\ UNCHANGED <<totpVars, tenantVars, restVars, rateVars, endpointVars, laterVars>>
    \/ \E password \in Passwords :
          RotatePassword(password) /\ UNCHANGED <<totpVars, tenantVars, restVars, rateVars, endpointVars, laterVars>>

\* The first start under every environment.
CredentialsInit == BootstrapInitOver(Logins)

CredentialsNext ==
    startups = 0 /\ Startup /\ UNCHANGED <<totpVars, tenantVars, restVars, rateVars, endpointVars, laterVars>>

(***************************************************************************)
(* Rate limiting: one in-memory store of entries [count, resetTime] shared *)
(* by every limiter; a limiter's body has no await, so a call is one step. *)
(***************************************************************************)

\* The key prefixes of authRateLimiters.superAdminLogin and
\* authRateLimiters.twoFactorVerification.
Prefixes == {"super-admin", "2fa"}

\* getClientIP(event): an address or nothing.
ClientIPs == {"1.1.1.1", Null}

\* keyGenerator: `${prefix}:${getClientIP(event) || 'unknown'}`
RateKey(prefix, ip) == <<prefix, IF ip = Null THEN "unknown" ELSE ip>>

RateKeys == {RateKey(prefix, ip) : prefix \in Prefixes, ip \in ClientIPs}

\* The rules a limiter may be created with.
RateLimitRules ==
    [windowMs : 1..MaxWindow, maxAttempts : 1..MaxAttempts]

\* Faulty variant of the limiter: an entry is renewed as soon as the clock
\* reaches its resetTime.
rateLimiterEarlyReset(rule, store, key, time) ==
    LET fresh == key \notin DOMAIN store \/ store[key].resetTime <= time
        entry == IF fresh THEN [count |-> 0, resetTime |-> time + rule.windowMs]
                 ELSE store[key]
        exceeded == entry.count >= rule.maxAttempts
        counted == IF exceeded THEN entry ELSE [entry EXCEPT !.count = @ + 1]
    IN  [store |-> (key :> counted) @@ store,
         fresh |-> fresh,
         statusCode |-> IF exceeded THEN 429 ELSE 200,
         statusMessage |-> IF exceeded THEN "Too Many Requests" ELSE "",
         remaining |-> IF exceeded THEN Undefined ELSE rule.maxAttempts - counted.count,
         resetTime |-> IF exceeded THEN Undefined ELSE counted.resetTime]

\* Faulty variant of the limiter: the limit is compared with > instead of >=.
rateLimiterOffByOne(rule, store, key, time) ==
    LET fresh == key \notin DOMAIN store \/ store[key].resetTime < time
        entry == IF fresh THEN [count |-> 0, resetTime |-> time + rule.windowMs]
                 ELSE store[key]
        exceeded == entry.count > rule.maxAttempts
        counted == IF exceeded THEN entry ELSE [entry EXCEPT !.count = @ + 1]
    IN  [store |-> (key :> counted) @@ store,
         fresh |-> fresh,
         statusCode |-> IF exceeded THEN 429 ELSE 200,
         statusMessage |-> IF exceeded THEN "Too Many Requests" ELSE "",
         remaining |-> IF exceeded THEN Undefined ELSE rule.maxAttempts - counted.count,
         resetTime |-> IF exceeded THEN Undefined ELSE counted.resetTime]

\* The function createRateLimit(rule) returns, called for `key` at `time`:
\* the store it leaves, and what it throws (429) or returns (200).
rateLimiter(rule, store, key, time) ==
    LET fresh == key \notin DOMAIN store \/ store[key].resetTime < time
        entry == IF fresh THEN [count |-> 0, resetTime |-> time + rule.windowMs]
                 ELSE store[key]
        exceeded == entry.count >= rule.maxAttempts
        counted == IF exceeded THEN entry ELSE [entry EXCEPT !.count = @ + 1]
    IN  [store |-> (key :> counted) @@ store,
         fresh |-> fresh,
         statusCode |-> IF exceeded THEN 429 ELSE 200,
         statusMessage |-> IF exceeded THEN "Too Many Requests" ELSE "",
         remaining |-> IF exceeded THEN Undefined ELSE rule.maxAttempts - counted.count,
         resetTime |-> IF exceeded THEN Undefined ELSE counted.resetTime]

\* clearRateLimit(event, prefix): rateLimitStore.delete(key)
clearRateLimit(store, key) == [k \in DOMAIN store \ {key} |-> store[k]]

\* A request reaches a limiter. `admitted` counts, per key, the calls let
\* through since the key's entry was created; a super-admin login that was
\* let through goes on to check the credentials.
CallRateLimiter(prefix, ip) ==
    /\ prefix = "super-admin" => inFlight[ip] < MaxInFlight
    /\ LET key == RateKey(prefix, ip)
           out == rateLimiter(rateRules[prefix], rateLimitStore, key, rateNow)
           let == IF out.statusCode = 429 THEN 0 ELSE 1
       IN  /\ rateLimitStore' = out.store
           /\ admitted' = [admitted EXCEPT ![key] = (IF out.fresh THEN 0 ELSE @) + let]
           /\ inFlight' = IF prefix = "super-admin"
                          THEN [inFlight EXCEPT ![ip] = @ + let]
                          ELSE inFlight
           /\ rateLast' = [op |-> IF let = 1 THEN "admitted" ELSE "blocked",
                           key |-> key, prefix |-> prefix, time |-> rateNow,
                           fresh |-> out.fresh,
                           countBefore |-> IF key \in DOMAIN rateLimitStore
                                           THEN rateLimitStore[key].count ELSE 0,
                           statusCode |-> out.statusCode,
                           statusMessage |-> out.statusMessage,
                           remaining |-> out.remaining,
                           resetTime |-> out.resetTime]
    /\ UNCHANGED <<rateNow, rateRules>>

\* The super-admin login handler after the limiter: the credentials are
\* right, and the handler clears the client's rate limit.
SuperAdminLoginSucceeds(ip) ==
    /\ inFlight[ip] > 0
    /\ inFlight' = [inFlight EXCEPT ![ip] = @ - 1]
    /\ rateLimitStore' = clearRateLimit(rateLimitStore, RateKey("super-admin", ip))
    /\ admitted' = [admitted EXCEPT ![RateKey("super-admin", ip)] = 0]
    /\ rateLast' = [op |-> "cleared", key |-> RateKey("super-admin", ip)]
    /\ UNCHANGED <<rateNow, rateRules>>

\* The credentials are wrong: the handler throws invalidCredentials.
SuperAdminLoginFails(ip) ==
    /\ inFlight[ip] > 0
    /\ inFlight' = [inFlight EXCEPT ![ip] = @ - 1]
    /\ rateLast' = [op |-> "failed", key |-> RateKey("super-admin", ip)]
    /\ UNCHANGED <<rateNow, rateRules, admitted, rateLimitStore>>

\* Date.now() moves on.
RateTick ==
    /\ rateNow < MaxClock
    /\ rateNow' = rateNow + 1
    /\ UNCHANGED <<rateLimitStore, rateRules, admitted, inFlight, rateLast>>

\* The setInterval sweep: every entry whose resetTime has passed is deleted.
RateSweep ==
    /\ \E key \in DOMAIN rateLimitStore : rateLimitStore[key].resetTime < rateNow
    /\ rateLimitStore' =
          [key \in {k \in DOMAIN rateLimitStore : ~(rateLimitStore[k].resetTime < rateNow)}
              |-> rateLimitStore[key]]
    /\ admitted' = [key \in RateKeys |->
                        IF key \in DOMAIN rateLimitStore'
                        THEN admitted[key] ELSE 0]
    /\ rateLast' = [op |-> "swept"]
    /\ UNCHANGED <<rateNow, rateRules, inFlight>>

RateLimitInit ==
    /\ dbEnabled = FALSE
    /\ dbProvider = Null
    /\ rateLimitStore = EmptyRecord
    /\ rateNow = 0
    /\ \E rule \in RateLimitRules :
          rateRules = [prefix \in Prefixes |->
                          IF prefix = "super-admin" THEN rule
                          ELSE [windowMs |-> MaxWindow, maxAttempts |-> MaxAttempts]]
    /\ admitted = [key \in RateKeys |-> 0]
    /\ inFlight = [ip \in ClientIPs |-> 0]
    /\ rateLast = [op |-> "none"]

RateLimitNext ==
    \/ \E prefix \in Prefixes, ip \in ClientIPs :
          \* the 2FA requests come from the client with an address
          /\ prefix = "2fa" => ip # Null
          /\ CallRateLimiter(prefix, ip)
          /\ UNCHANGED <<dbEnabled, dbProvider, totpVars, rbacVars, tenantVars,
                         restVars, bootVars, endpointVars,
                         laterVars>>
    \/ \E ip \in ClientIPs :
          SuperAdminLoginSucceeds(ip)
          /\ UNCHANGED <<dbEnabled, dbProvider, totpVars, rbacVars, tenantVars,
                         restVars, bootVars, endpointVars,
                         laterVars>>
    \/ \E ip \in ClientIPs :
          SuperAdminLoginFails(ip)
          /\ UNCHANGED <<dbEnabled, dbProvider, totpVars, rbacVars, tenantVars,
                         restVars, bootVars, endpointVars,
                         laterVars>>
    \/ RateTick
       /\ UNCHANGED <<dbEnabled, dbProvider, totpVars, rbacVars, tenantVars,
                      restVars, bootVars, endpointVars,
                         laterVars>>
    \/ RateSweep
       /\ UNCHANGED <<dbEnabled, dbProvider, totpVars, rbacVars, tenantVars,
                      restVars, bootVars, endpointVars,
                         laterVars>>

(***************************************************************************)
(* Endpoints. A request body's string is the sequence of its characters;   *)
(* the 2FA engine above knows a string as a number: a string of six digits *)
(* is the number it writes, any other string is numbered from 1000000.     *)
(***************************************************************************)

DigitChars == <<"0", "1", "2", "3", "4", "5", "6", "7", "8", "9">>

\* isValidTOTP(code): /^\d{6}$/
isValidTOTP(code) ==
    /\ Len(code) = 6
    /\ \A i \in 1..6 : \E d \in 1..10 : code[i] = DigitChars[d]

DigitValue(char) == (CHOOSE d \in 1..10 : DigitChars[d] = char) - 1

RECURSIVE NumberOf(_)
NumberOf(digits) ==
    IF digits = <<>> THEN 0
    ELSE 10 * NumberOf(SubSeq(digits, 1, Len(digits) - 1)) + DigitValue(digits[Len(digits)])

Power10(n) == IF n = 0 THEN 1 ELSE IF n = 1 THEN 10 ELSE IF n = 2 THEN 100
              ELSE IF n = 3 THEN 1000 ELSE IF n = 4 THEN 10000 ELSE 100000

\* The six digits a TOTP code is written with (padStart(6, '0')).
SixDigits(n) == [i \in 1..6 |-> DigitChars[((n \div Power10(6 - i)) % 10) + 1]]

\* A code as generateBackupCodes makes them by default: 8 characters of A-Z0-9.
RecoveryText == <<"A", "B", "C", "D", "1", "2", "3", "4">>

\* The strings that are not six digits.
OtherTexts == <<RecoveryText, <<"1", "2", "3", "4", "5">>, <<>>>>

StringNumber(text) ==
    IF isValidTOTP(text) THEN NumberOf(text)
    ELSE 1000000 + (CHOOSE i \in DOMAIN OtherTexts : OtherTexts[i] = text)

\* The bodies a client posts to the verify endpoint: no code, and the codes
\* that are the user's TOTP code of the current step, a six-digit string that
\* is no TOTP code, an 8-character recovery code, five digits, the empty string.
VerifyBodies ==
    {EmptyRecord}
    \cup {[code |-> SixDigits(TOTPGenerate("s1", 0))], [code |-> SixDigits(NotACode)]}
    \cup {[code |-> OtherTexts[i]] : i \in DOMAIN OtherTexts}

\* validateInput(body, validationSchemas.twoFactorVerify).errors
twoFactorVerifyErrors(body) ==
    IF "code" \notin DOMAIN body THEN {"code is required"}
    ELSE IF body.code = <<>> THEN {"code is required"}
    ELSE IF ~isValidTOTP(body.code) THEN {"code must be a valid 6-digit TOTP code"}
    ELSE {}

\* The handler of POST /api/_auth/2fa/verify after its limiter: the session
\* is required, the body validated, verify2FA called; `called` tells whether
\* verify2FA was.
verifyHandler(limited, session, body, us, rows) ==
    IF limited
    THEN [statusCode |-> 429, statusMessage |-> "Too Many Requests",
          called |-> FALSE, recoveryCodes |-> rows]
    ELSE IF ~Authenticated(session)
    THEN [statusCode |-> 401, statusMessage |-> "Unauthorized",
          called |-> FALSE, recoveryCodes |-> rows]
    ELSE IF twoFactorVerifyErrors(body) # {}
    THEN [statusCode |-> 400, statusMessage |-> "Validation Error",
          errors |-> twoFactorVerifyErrors(body),
          called |-> FALSE, recoveryCodes |-> rows]
    ELSE LET out == verify2FAOutcome(us, rows, SessionUserId(session),
                                     StringNumber(body.code))
         IN  IF ~out.result.isValid
             THEN [statusCode |-> 401, statusMessage |-> "Authentication Failed",
                   called |-> TRUE, recoveryCodes |-> out.recoveryCodes]
             ELSE [statusCode |-> 200, result |-> out.result,
                   called |-> TRUE, recoveryCodes |-> out.recoveryCodes]

\* POST /api/_auth/2fa/verify
Verify2FAEndpoint(ip, session, body) ==
    /\ CallRateLimiter("2fa", ip)
    /\ LET out == verifyHandler(rateLast'.statusCode = 429, session, body,
                                users, recoveryCodes)
       IN  /\ recoveryCodes' = out.recoveryCodes
           /\ endpointLast' = [op |-> "2fa/verify", session |-> session,
                               body |-> body, before |-> recoveryCodes,
                               response |-> [f \in DOMAIN out \ {"recoveryCodes"} |-> out[f]]]
    /\ UNCHANGED <<dbEnabled, dbProvider, users, nextId, now, issued, totpLast>>

\* The recovery codes user u1 may hold when the requests come: an 8-character
\* code, and six-digit ones (totp.backupCodeLength 6, all digits by chance),
\* of which one is the same string as the user's TOTP code of the moment.
HeldCodes ==
    {[id |-> 0, userId |-> "u1", code |-> StringNumber(RecoveryText),
      used |-> FALSE, usedAt |-> Null],
     [id |-> 1, userId |-> "u1", code |-> NotACode, used |-> FALSE, usedAt |-> Null],
     [id |-> 2, userId |-> "u1", code |-> TOTPGenerate("s1", 0),
      used |-> FALSE, usedAt |-> Null]}

\* User u1 has enabled 2FA with secret s1; u2 has not.
VerifyEndpointInit ==
    /\ dbEnabled = TRUE
    /\ dbProvider \in Providers
    /\ users = [u \in Users |->
                   IF u = "u1" THEN [twoFactorEnabled |-> TRUE, twoFactorSecret |-> "s1"]
                   ELSE NoUser]
    /\ recoveryCodes \in SUBSET HeldCodes
    /\ nextId = 3
    /\ now = 0
    /\ issued = {}
    /\ totpLast = [op |-> "none", userId |-> Null, threw |-> FALSE]
    /\ rateLimitStore = EmptyRecord
    /\ rateNow = 0
    /\ rateRules = [prefix \in Prefixes |->
                       [windowMs |-> MaxWindow, maxAttempts |-> MaxAttempts]]
    /\ admitted = [key \in RateKeys |-> 0]
    /\ inFlight = [ip \in ClientIPs |-> 0]
    /\ rateLast = [op |-> "none"]
    /\ endpointLast = [op |-> "none"]

VerifyEndpointNext ==
    \E ip \in ClientIPs, session \in Sessions, body \in VerifyBodies :
        Verify2FAEndpoint(ip, session, body)
        /\ UNCHANGED <<rbacVars, tenantVars, restVars, bootVars, laterVars>>

\* A UUID as randomUUID makes them, told apart by its last digit; users u1 and
\* u2 have the ids UuidOf(1) and UuidOf(2).
UuidOf(n) ==
    [i \in 1..36 |->
        IF i \in {9, 14, 19, 24} THEN "-"
        ELSE IF i = 15 THEN "4"
        ELSE IF i = 20 THEN "8"
        ELSE IF i = 36 THEN DigitChars[n + 1]
        ELSE "0"]

HexChars == {DigitChars[d] : d \in 1..10} \cup {"a", "b", "c", "d", "e", "f"}

\* isValidUUID(uuid):
\* /^[0-9a-f]{8}-[0-9a-f]{4}-[1-5][0-9a-f]{3}-[89ab][0-9a-f]{3}-[0-9a-f]{12}$/i
isValidUUID(uuid) ==
    /\ Len(uuid) = 36
    /\ \A i \in 1..36 :
          IF i \in {9, 14, 19, 24} THEN uuid[i] = "-"
          ELSE IF i = 15 THEN uuid[i] \in {"1", "2", "3", "4", "5"}
          ELSE IF i = 20 THEN uuid[i] \in {"8", "9", "a", "b"}
          ELSE uuid[i] \in HexChars

\* The user a userId string names in the users of the model.
UserOfUuid(uuid) ==
    IF uuid = UuidOf(1) THEN "u1" ELSE IF uuid = UuidOf(2) THEN "u2" ELSE UnknownUser

\* The string of a sequence of characters.
RECURSIVE Join(_)
Join(chars) == IF chars = <<>> THEN "" ELSE Head(chars) \o Join(Tail(chars))

SlugChars ==
    {DigitChars[d] : d \in 1..10} \cup
    {"a", "b", "c", "d", "e", "f", "g", "h", "i", "j", "k", "l", "m", "n", "o", "p",
     "q", "r", "s", "t", "u", "v", "w", "x", "y", "z", "-"}

\* The roleSlug strings a client sends: two slugs of roles, a slug of no
\* role, one with a capital letter.
SlugTexts ==
    {<<"a", "d", "m", "i", "n">>,
     <<"s", "u", "p", "e", "r", "-", "a", "d", "m", "i", "n">>,
     <<"n", "o", "b", "o", "d", "y">>,
     <<"A", "d", "m", "i", "n">>}

\* The bodies a client posts to the role-assignment endpoint.
AssignBodies ==
    {EmptyRecord, [userId |-> <<"u", "2">>, roleSlug |-> <<"a", "d", "m", "i", "n">>]}
    \cup {[userId |-> UuidOf(2), roleSlug |-> slug] : slug \in SlugTexts}

\* validateInput(body, validationSchemas.roleAssign).errors
roleAssignErrors(body) ==
    (IF "userId" \notin DOMAIN body THEN {"userId is required"}
     ELSE IF body.userId = <<>> THEN {"userId is required"}
     ELSE IF ~isValidUUID(body.userId) THEN {"userId must be a valid UUID"}
     ELSE {})
    \cup
    (IF "roleSlug" \notin DOMAIN body THEN {"roleSlug is required"}
     ELSE IF body.roleSlug = <<>> THEN {"roleSlug is required"}
     ELSE IF Len(body.roleSlug) < 1
     THEN {"roleSlug must be at least 1 characters long"}
     ELSE IF Len(body.roleSlug) > 50
     THEN {"roleSlug must be no more than 50 characters long"}
     ELSE IF \E i \in DOMAIN body.roleSlug : body.roleSlug[i] \notin SlugChars
     THEN {"roleSlug format is invalid"}
     ELSE {})

ManageRoles == [form |-> "string", slug |-> "roles.manage"]

\* Faulty variant of the role-assignment handler: the role is assigned before
\* the permission is required.
assignHandlerAssigningFirst(limited, session, body, atCheck, atAssign, rows) ==
    LET guard == requirePermissionOutcome(session, ManageRoles, atCheck, EmptyRecord)
        out == assignRoleOutcome(rows, UserOfUuid(body.userId), Join(body.roleSlug),
                                 atAssign)
    IN  IF limited
        THEN [statusCode |-> 429, statusMessage |-> "Too Many Requests",
              steps |-> <<>>, userRoles |-> rows]
        ELSE IF roleAssignErrors(body) # {}
        THEN [statusCode |-> 400, statusMessage |-> "Validation Error",
              errors |-> roleAssignErrors(body),
              steps |-> <<>>, userRoles |-> rows]
        ELSE IF guard.threw
        THEN [statusCode |-> guard.statusCode, statusMessage |-> guard.statusMessage,
              steps |-> <<"assignRole", "requirePermission">>,
              userRoles |-> out.userRoles]
        ELSE IF ~out.result
        THEN [statusCode |-> 500, statusMessage |-> "Internal Server Error",
              steps |-> <<"assignRole", "requirePermission">>,
              userRoles |-> out.userRoles]
        ELSE [statusCode |-> 200, success |-> TRUE,
              message |-> "Role assigned successfully",
              steps |-> <<"assignRole", "requirePermission">>,
              userRoles |-> out.userRoles]

\* The handler of POST /api/_auth/roles/assign after its limiter; `atCheck`
\* is the tenant requirePermission reads, `atAssign` the tenant the handler
\* reads afterwards (getCurrentTenantId); `steps` are the calls made, in order.
assignHandler(limited, session, body, atCheck, atAssign, rows) ==
    LET guard == requirePermissionOutcome(session, ManageRoles, atCheck, EmptyRecord)
        out == assignRoleOutcome(rows, UserOfUuid(body.userId), Join(body.roleSlug),
                                 atAssign)
    IN  IF limited
        THEN [statusCode |-> 429, statusMessage |-> "Too Many Requests",
              steps |-> <<>>, userRoles |-> rows]
        ELSE IF guard.threw
        THEN [statusCode |-> guard.statusCode, statusMessage |-> guard.statusMessage,
              steps |-> <<"requirePermission">>, userRoles |-> rows]
        ELSE IF roleAssignErrors(body) # {}
        THEN [statusCode |-> 400, statusMessage |-> "Validation Error",
              errors |-> roleAssignErrors(body),
              steps |-> <<"requirePermission">>, userRoles |-> rows]
        ELSE IF ~out.result
        THEN [statusCode |-> 500, statusMessage |-> "Internal Server Error",
              steps |-> <<"requirePermission", "assignRole">>,
              userRoles |-> out.userRoles]
        ELSE [statusCode |-> 200, success |-> TRUE,
              message |-> "Role assigned successfully",
              steps |-> <<"requirePermission", "assignRole">>,
              userRoles |-> out.userRoles]

\* POST /api/_auth/roles/assign
AssignRoleEndpoint(ip, session, body, atCheck, atAssign) ==
    /\ CallRateLimiter("api", ip)
    /\ LET out == assignHandler(rateLast'.statusCode = 429, session, body,
                                atCheck, atAssign, userRoles)
       IN  /\ userRoles' = out.userRoles
           /\ endpointLast' =
                 [op |-> "roles/assign", session |-> session, body |-> body,
                  before |-> userRoles, atAssign |-> atAssign,
                  permitted |-> /\ Authenticated(session)
                                /\ hasPermission(SessionUserId(session), ManageRoles,
                                                 atCheck).result,
                  response |-> [f \in DOMAIN out \ {"userRoles"} |-> out[f]]]
    /\ UNCHANGED <<dbEnabled, dbProvider, rbacLast>>

\* The requests come from one address, without a session or as u1 or u2.
AssignClients == {"1.1.1.1"}

AssignSessions == {EmptyRecord, [user |-> "u1"], [user |-> "u2"]}

AssignEndpointInit ==
    /\ DatabaseInit
    /\ userRoles \in {rows \in GuardedRows : \A row \in rows : row.userId = "u1"}
    /\ rbacLast = [op |-> "none"]
    /\ rateLimitStore = EmptyRecord
    /\ rateNow = 0
    /\ rateRules = [prefix \in {"api"} |->
                       [windowMs |-> MaxWindow, maxAttempts |-> MaxAttempts]]
    /\ admitted = [key \in {RateKey("api", ip) : ip \in AssignClients} |-> 0]
    /\ inFlight = [ip \in ClientIPs |-> 0]
    /\ rateLast = [op |-> "none"]
    /\ endpointLast = [op |-> "none"]

AssignEndpointNext ==
    \E ip \in AssignClients, session \in AssignSessions, body \in AssignBodies,
       atCheck \in Orgs \cup {Null}, atAssign \in Orgs \cup {Null} :
        AssignRoleEndpoint(ip, session, body, atCheck, atAssign)
        /\ UNCHANGED <<totpVars, tenantVars, restVars, bootVars, laterVars>>

(***************************************************************************)
(* The organization cache: getOrganizationById keeps what it read in a     *)
(* module-level Map for CACHE_TTL milliseconds. A call that misses awaits  *)
(* the select, so the read, the store and other callers' steps interleave. *)
(***************************************************************************)
CACHE_TTL == 5 * 60 * 1000

\* The clock moves in halves of the time-to-live.
ClockStep == CACHE_TTL \div 2

\* The handlers that call getOrganizationById at the same time
Callers == {"c1", "c2"}

\* The ids getOrganizationById is called with
CachedIds == {"A", "B"}

\* What an organization's row holds; Null stands for no row.
OrgNames == {"acme"}

NoEntry == [org |-> Null, timestamp |-> -1]

\* organizationCache.get(organizationId)
CacheGet(cache, organizationId) ==
    IF organizationId \in DOMAIN cache THEN cache[organizationId] ELSE NoEntry

\* Faulty variant: an entry is served at any age.
CacheHitAtAnyAge(cache, organizationId, time) ==
    organizationId \in DOMAIN cache

\* cached && Date.now() - cached.timestamp < CACHE_TTL
CacheHit(cache, organizationId, time) ==
    /\ organizationId \in DOMAIN cache
    /\ time - cache[organizationId].timestamp < CACHE_TTL

\* organizationCache.set(organizationId, { org, timestamp: Date.now() })
CacheSet(cache, organizationId, org, time) ==
    [key \in DOMAIN cache \cup {organizationId} |->
        IF key = organizationId THEN [org |-> org, timestamp |-> time]
        ELSE cache[key]]

\* What a call that returned leaves in cacheLast
\* (replaced: the entry its store wrote over)
Returned(caller, organizationId, result, from, age, stale, replaced) ==
    [op |-> "getOrganizationById", caller |-> caller, id |-> organizationId,
     result |-> result, from |-> from, age |-> age, stale |-> stale,
     replaced |-> replaced]

\* getOrganizationById(organizationId) up to its await: the cache is looked
\* up; a hit returns, without a database the call returns null, otherwise the
\* select is sent.
GetOrganizationByIdBegin(caller, organizationId) ==
    LET cached == CacheGet(organizationCache, organizationId)
        stale == organizationId \in DOMAIN organizationCache
    IN  /\ orgCall[caller].at = "idle"
        /\ IF CacheHit(organizationCache, organizationId, cacheNow)
           THEN /\ cacheLast' = Returned(caller, organizationId, cached.org, "cache",
                                         cacheNow - cached.timestamp, FALSE,
                                         NoEntry)
                /\ UNCHANGED orgCall
           ELSE IF ~dbEnabled
           THEN /\ cacheLast' = Returned(caller, organizationId, Null, "disabled",
                                         -1, stale, NoEntry)
                /\ UNCHANGED orgCall
           ELSE /\ orgCall' = [orgCall EXCEPT ![caller] =
                                  [at |-> "select", id |-> organizationId,
                                   stale |-> stale, read |-> Null, raised |-> FALSE]]
                /\ UNCHANGED cacheLast
        /\ UNCHANGED <<dbEnabled, dbProvider, organizationCache, cacheNow, organizations>>

\* The database answers the select: the row of the id as it is now, or an error.
DatabaseSelects(caller, raises) ==
    /\ orgCall[caller].at = "select"
    /\ orgCall' = [orgCall EXCEPT ![caller] =
                      [@ EXCEPT !.at = "resume",
                                !.read = IF raises THEN Null
                                         ELSE organizations[orgCall[caller].id],
                                !.raised = raises]]
    /\ UNCHANGED <<dbEnabled, dbProvider, organizationCache, cacheNow, organizations,
                   cacheLast>>

\* getOrganizationById after its await: result[0] || null is stored with the
\* time of the store and returned; a rejected select is caught, null returned.
GetOrganizationByIdResume(caller) ==
    LET call == orgCall[caller]
    IN  /\ call.at = "resume"
        /\ IF call.raised
           THEN /\ cacheLast' = Returned(caller, call.id, Null, "error", -1, call.stale,
                                         NoEntry)
                /\ UNCHANGED organizationCache
           ELSE /\ organizationCache' =
                      CacheSet(organizationCache, call.id, call.read, cacheNow)
                /\ cacheLast' = Returned(caller, call.id, call.read, "database", -1,
                                         call.stale,
                                         CacheGet(organizationCache, call.id))
        /\ orgCall' = [orgCall EXCEPT ![caller] = [at |-> "idle"]]
        /\ UNCHANGED <<dbEnabled, dbProvider, cacheNow, organizations>>

\* A row of the organizations table is inserted or deleted.
OrganizationChanges(organizationId, name) ==
    /\ dbEnabled
    /\ organizations[organizationId] # name
    /\ organizations' = [organizations EXCEPT ![organizationId] = name]
    /\ UNCHANGED <<dbEnabled, dbProvider, organizationCache, cacheNow, orgCall,
                   cacheLast>>

CacheTick ==
    /\ cacheNow < MaxCacheTicks * ClockStep
    /\ cacheNow' = cacheNow + ClockStep
    /\ UNCHANGED <<dbEnabled, dbProvider, organizationCache, organizations, orgCall,
                   cacheLast>>

OrgCacheInit ==
    /\ DatabaseInit
    /\ organizationCache = EmptyRecord
    /\ cacheNow = 0
    /\ organizations \in [CachedIds -> OrgNames \cup {Null}]
    /\ orgCall = [caller \in Callers |-> [at |-> "idle"]]
    /\ cacheLast = [op |-> "none"]

OrgCacheNext ==
    \/ \E caller \in Callers, organizationId \in CachedIds :
          GetOrganizationByIdBegin(caller, organizationId)
          /\ UNCHANGED <<totpVars, rbacVars, tenantVars, restVars, bootVars, rateVars,
                         endpointVars, raceVars>>
    \/ \E caller \in Callers, raises \in BOOLEAN :
          DatabaseSelects(caller, raises)
          /\ UNCHANGED <<totpVars, rbacVars, tenantVars, restVars, bootVars, rateVars,
                         endpointVars, raceVars>>
    \/ \E caller \in Callers :
          GetOrganizationByIdResume(caller)
          /\ UNCHANGED <<totpVars, rbacVars, tenantVars, restVars, bootVars, rateVars,
                         endpointVars, raceVars>>
    \/ \E organizationId \in CachedIds, name \in OrgNames \cup {Null} :
          OrganizationChanges(organizationId, name)
          /\ UNCHANGED <<totpVars, rbacVars, tenantVars, restVars, bootVars, rateVars,
                         endpointVars, raceVars>>
    \/ CacheTick
       /\ UNCHANGED <<totpVars, rbacVars, tenantVars, restVars, bootVars, rateVars,
                      endpointVars, raceVars>>

(***************************************************************************)
(* The 2FA engine under concurrency: handlers run at the same time and     *)
(* each await hands the event loop to the others, so calls interleave      *)
(* statement by statement. A transaction of a server driver is taken as    *)
(* one step at its commit; under better-sqlite3 its statements are         *)
(* committed one by one.                                                   *)
(***************************************************************************)
Procs == {"p1", "p2"}

ProcIndex(proc) == IF proc = "p1" THEN 0 ELSE 1

\* randomUUID() for the i-th row a handler inserts: fresh, and unlike the ids
\* of the rows that are there from the start.
FreshId(proc, i) == MaxIds + ProcIndex(proc) * MaxBatch + i

\* The codes one call of the backup-codes handler draws
RegeneratedCount == 1

\* What a step of the engine under concurrency leaves alone
RaceFrame == <<rbacVars, tenantVars, restVars, bootVars, rateVars, endpointVars,
               cacheVars>>

\* A statement of a transaction
Statement(kind, secret, code) == [kind |-> kind, secret |-> secret, code |-> code]

\* The insert loop over a batch of codes
RECURSIVE InsertStatements(_)
InsertStatements(batch) ==
    IF batch = <<>> THEN <<>>
    ELSE <<Statement("insertCode", "none", Head(batch))>> \o InsertStatements(Tail(batch))

\* The statements of the transactions, in order
enable2FAStatements(secret, backupCodes) ==
    <<Statement("enableUser", secret, -1), Statement("deleteCodes", "none", -1)>>
        \o InsertStatements(backupCodes)

disable2FAStatements ==
    <<Statement("disableUser", "none", -1), Statement("deleteCodes", "none", -1)>>

generateNewBackupCodesStatements(backupCodes) ==
    <<Statement("deleteUnused", "none", -1)>> \o InsertStatements(backupCodes)

\* One statement run against the tables
Execute(statement, us, rows, userId, id) ==
    CASE statement.kind = "enableUser" ->
            [ok |-> TRUE, recoveryCodes |-> rows,
             users |-> [us EXCEPT ![userId] =
                           [twoFactorEnabled |-> TRUE,
                            twoFactorSecret |-> statement.secret]]]
      [] statement.kind = "disableUser" ->
            [ok |-> TRUE, recoveryCodes |-> rows,
             users |-> [us EXCEPT ![userId] =
                           [twoFactorEnabled |-> FALSE, twoFactorSecret |-> Null]]]
      [] statement.kind = "deleteCodes" ->
            [ok |-> TRUE, users |-> us,
             recoveryCodes |-> {r \in rows : r.userId # userId}]
      [] statement.kind = "deleteUnused" ->
            [ok |-> TRUE, users |-> us,
             recoveryCodes |-> rows \ UnusedCodes(rows, userId)]
      [] statement.kind = "insertCode" ->
            IF UniqueViolation(rows, <<statement.code>>)
            THEN [ok |-> FALSE, users |-> us, recoveryCodes |-> rows]
            ELSE [ok |-> TRUE, users |-> us,
                  recoveryCodes |-> rows \cup
                      {[id |-> id, userId |-> userId, code |-> statement.code,
                        used |-> FALSE, usedAt |-> Null]}]

\* The statements of a transaction run one after the other, up to the first
\* that raises.
RECURSIVE ExecuteAll(_, _, _, _, _, _)
ExecuteAll(statements, us, rows, userId, proc, i) ==
    IF statements = <<>>
    THEN [ok |-> TRUE, users |-> us, recoveryCodes |-> rows]
    ELSE LET out == Execute(Head(statements), us, rows, userId, FreshId(proc, i))
         IN  IF out.ok
             THEN ExecuteAll(Tail(statements), out.users, out.recoveryCodes, userId,
                             proc, i + 1)
             ELSE out

\* A handler's call: the function, the statement it is at, its arguments, the
\* row its select returned, the statements its transaction has yet to run, the
\* number of statements it has run, and its result once it has returned.
Pending == [pending |-> TRUE]

NoRowRead == [id |-> -1, userId |-> Null, code |-> -1, used |-> FALSE, usedAt |-> Null]

NotRunning ==
    [op |-> "none", at |-> "idle", userId |-> Null, code |-> -1, row |-> NoRowRead,
     statements |-> <<>>, ran |-> 0, result |-> Pending]

Call(op, at, userId, code, statements) ==
    [op |-> op, at |-> at, userId |-> userId, code |-> code, row |-> NoRowRead,
     statements |-> statements, ran |-> 0, result |-> Pending]

Return(call, result) == [call EXCEPT !.at = "done", !.result = result]

\* verify2FA(userId, code) is called: without a database it returns at once.
CallVerify2FA(proc, userId, code) ==
    /\ running[proc].at = "idle"
    /\ running' = [running EXCEPT ![proc] =
                      IF ~dbEnabled
                      THEN Return(Call("verify2FA", "idle", userId, code, <<>>), Invalid)
                      ELSE Call("verify2FA", "selectUser", userId, code, <<>>)]
    /\ UNCHANGED <<dbEnabled, dbProvider, totpVars>>

\* verify2FA: the user's row is read and the code tried as a TOTP code.
Verify2FASelectUser(proc) ==
    LET call == running[proc]
        user == users[call.userId]
    IN  /\ call.op = "verify2FA" /\ call.at = "selectUser"
        /\ running' = [running EXCEPT ![proc] =
              IF ~user.twoFactorEnabled \/ user.twoFactorSecret = Null
              THEN Return(call, Invalid)
              ELSE IF verifyTOTPCode(user.twoFactorSecret, call.code, DefaultWindow)
              THEN Return(call, ValidTOTP)
              ELSE [call EXCEPT !.at = "selectCode"]]
        /\ UNCHANGED <<dbEnabled, dbProvider, totpVars>>

\* verify2FA: the select of an unused recovery code of the user with the code
Verify2FASelectCode(proc) ==
    LET call == running[proc]
        matching == MatchingCodes(recoveryCodes, call.userId, call.code)
    IN  /\ call.op = "verify2FA" /\ call.at = "selectCode"
        /\ IF matching = {}
           THEN running' = [running EXCEPT ![proc] = Return(call, Invalid)]
           ELSE \E row \in matching :
                   running' = [running EXCEPT ![proc] =
                                  [call EXCEPT !.at = "markUsed", !.row = row]]
        /\ UNCHANGED <<dbEnabled, dbProvider, totpVars>>

\* verify2FA: the update that marks the row it selected, by id
Verify2FAMarkUsed(proc) ==
    LET call == running[proc]
    IN  /\ call.op = "verify2FA" /\ call.at = "markUsed"
        /\ recoveryCodes' = MarkUsed(recoveryCodes, call.row)
        /\ running' = [running EXCEPT ![proc] = [call EXCEPT !.at = "countRemaining"]]
        /\ UNCHANGED <<dbEnabled, dbProvider, users, nextId, now, issued, totpLast>>

\* verify2FA: the count of the user's unused codes, and the return
Verify2FACountRemaining(proc) ==
    LET call == running[proc]
    IN  /\ call.op = "verify2FA" /\ call.at = "countRemaining"
        /\ running' = [running EXCEPT ![proc] =
              Return(call, [isValid |-> TRUE, isBackupCode |-> TRUE,
                            remainingBackupCodes |->
                               Cardinality(UnusedCodes(recoveryCodes, call.userId))])]
        /\ UNCHANGED <<dbEnabled, dbProvider, totpVars>>

\* disable2FA(userId) is called and opens its transaction.
CallDisable2FA(proc, userId) ==
    /\ running[proc].at = "idle"
    /\ running' = [running EXCEPT ![proc] =
                      IF ~dbEnabled
                      THEN Return(Call("disable2FA", "idle", userId, -1, <<>>),
                                  [ok |-> FALSE])
                      ELSE Call("disable2FA", "transaction", userId, -1,
                                disable2FAStatements)]
    /\ UNCHANGED <<dbEnabled, dbProvider, totpVars>>

\* enable2FA(userId, secret, token, backupCodes) is called with the token the
\* authenticator shows, which verifies, and opens its transaction.
CallEnable2FA(proc, userId, secret, backupCodes) ==
    /\ running[proc].at = "idle"
    /\ dbEnabled
    /\ verifyTOTPCode(secret, TOTPGenerate(secret, now), DefaultWindow)
    /\ running' = [running EXCEPT ![proc] =
                      Call("enable2FA", "transaction", userId, -1,
                           enable2FAStatements(secret, backupCodes))]
    /\ UNCHANGED <<dbEnabled, dbProvider, totpVars>>

\* POST /api/2fa/backup-codes by a signed-in user with the right password
CallBackupCodes(proc, userId) ==
    /\ running[proc].at = "idle"
    /\ dbEnabled
    /\ running' = [running EXCEPT ![proc] =
                      Call("backup-codes", "selectUser", userId, -1, <<>>)]
    /\ UNCHANGED <<dbEnabled, dbProvider, totpVars>>

\* The backup-codes handler reads the user's row: 400 unless twoFactorEnabled,
\* otherwise generateNewBackupCodes draws its codes and opens its transaction.
BackupCodesSelectUser(proc) ==
    LET call == running[proc]
    IN  /\ call.op = "backup-codes" /\ call.at = "selectUser"
        /\ IF ~users[call.userId].twoFactorEnabled
           THEN running' = [running EXCEPT ![proc] =
                               Return(call, [statusCode |-> 400])]
           ELSE \E backupCodes \in generateBackupCodes(RegeneratedCount) :
                   running' = [running EXCEPT ![proc] =
                       [call EXCEPT !.at = "transaction",
                                    !.statements =
                                        generateNewBackupCodesStatements(backupCodes)]]
        /\ UNCHANGED <<dbEnabled, dbProvider, totpVars>>

\* Under better-sqlite3 the next statement of a handler's transaction runs and
\* is committed; one that raises ends the call with what was stored left there.
TransactionStatement(proc) ==
    LET call == running[proc]
        out == Execute(Head(call.statements), users, recoveryCodes, call.userId,
                       FreshId(proc, call.ran))
    IN  /\ call.at = "transaction"
        /\ dbProvider = "sqlite"
        /\ users' = out.users
        /\ recoveryCodes' = out.recoveryCodes
        /\ running' = [running EXCEPT ![proc] =
              IF ~out.ok THEN Return(call, [ok |-> FALSE])
              ELSE IF Len(call.statements) = 1 THEN Return(call, [ok |-> TRUE])
              ELSE [call EXCEPT !.statements = Tail(call.statements),
                                !.ran = call.ran + 1]]
        /\ UNCHANGED <<dbEnabled, dbProvider, nextId, now, issued, totpLast>>

\* Under a server driver the transaction commits what its statements did, or
\* rolls back when one of them raised.
TransactionCommit(proc) ==
    LET call == running[proc]
        out == ExecuteAll(call.statements, users, recoveryCodes, call.userId, proc, 0)
    IN  /\ call.at = "transaction"
        /\ dbProvider # "sqlite"
        /\ users' = IF out.ok THEN out.users ELSE users
        /\ recoveryCodes' = IF out.ok THEN out.recoveryCodes ELSE recoveryCodes
        /\ running' = [running EXCEPT ![proc] = Return(call, [ok |-> out.ok])]
        /\ UNCHANGED <<dbEnabled, dbProvider, nextId, now, issued, totpLast>>

\* User u1 has enabled 2FA with secret s1 and a batch of distinct backup codes.
TwoFactorRaceInit ==
    /\ dbEnabled = TRUE
    /\ dbProvider \in Providers
    /\ \E backupCodes \in {b \in Batches : NoDuplicates(b)} :
          /\ recoveryCodes = NewCodeRows("u1", backupCodes, 0)
          /\ nextId = Len(backupCodes)
    /\ users = [u \in Users |->
                   IF u = "u1"
                   THEN [twoFactorEnabled |-> TRUE, twoFactorSecret |-> "s1"]
                   ELSE NoUser]
    /\ now = 0
    /\ issued = {}
    /\ totpLast = [op |-> "none", userId |-> Null, threw |-> FALSE]
    /\ running = [proc \in Procs |-> NotRunning]

TwoFactorRaceNext ==
    \/ \E proc \in Procs, code \in CodeValues :
          CallVerify2FA(proc, "u1", code) /\ UNCHANGED RaceFrame
    \/ \E proc \in Procs : Verify2FASelectUser(proc) /\ UNCHANGED RaceFrame
    \/ \E proc \in Procs : Verify2FASelectCode(proc) /\ UNCHANGED RaceFrame
    \/ \E proc \in Procs : Verify2FAMarkUsed(proc) /\ UNCHANGED RaceFrame
    \/ \E proc \in Procs : Verify2FACountRemaining(proc) /\ UNCHANGED RaceFrame
    \/ \E proc \in Procs : CallDisable2FA(proc, "u1") /\ UNCHANGED RaceFrame
    \/ \E proc \in Procs, backupCodes \in generateBackupCodes(RegeneratedCount) :
          CallEnable2FA(proc, "u1", "s1", backupCodes) /\ UNCHANGED RaceFrame
    \/ \E proc \in Procs : CallBackupCodes(proc, "u1") /\ UNCHANGED RaceFrame
    \/ \E proc \in Procs : BackupCodesSelectUser(proc) /\ UNCHANGED RaceFrame
    \/ \E proc \in Procs : TransactionStatement(proc) /\ UNCHANGED RaceFrame
    \/ \E proc \in Procs : TransactionCommit(proc) /\ UNCHANGED RaceFrame

(***************************************************************************)
(* The RBAC engine under concurrency: assignRole and removeRole send their *)
(* statements one await at a time, with no transaction around them.        *)
(***************************************************************************)
NoRole == [id |-> Null, organizationId |-> Null, slug |-> Null]

RoleCall(op, at, userId, roleSlug, organizationId) ==
    [op |-> op, at |-> at, userId |-> userId, slug |-> roleSlug,
     organizationId |-> organizationId, role |-> NoRole, result |-> Pending]

\* assignRole / removeRole is called: false at once without a database.
CallRoleChange(proc, op, userId, roleSlug, organizationId) ==
    /\ running[proc].at = "idle"
    /\ running' = [running EXCEPT ![proc] =
          IF ~dbEnabled
          THEN Return(RoleCall(op, "idle", userId, roleSlug, organizationId),
                      [ok |-> FALSE])
          ELSE RoleCall(op, "selectRole", userId, roleSlug, organizationId)]
    /\ UNCHANGED <<dbEnabled, dbProvider, userRoles, rbacLast>>

\* Both functions first look the role up: false when there is none.
RoleChangeSelectRole(proc) ==
    LET call == running[proc]
        found == FindRole(call.slug, call.organizationId)
    IN  /\ call.at = "selectRole"
        /\ IF found = {}
           THEN running' = [running EXCEPT ![proc] = Return(call, [ok |-> FALSE])]
           ELSE \E role \in found :
                   running' = [running EXCEPT ![proc] =
                       [call EXCEPT !.role = role,
                                    !.at = IF call.op = "assignRole"
                                           THEN "selectUserRole"
                                           ELSE "deleteUserRole"]]
        /\ UNCHANGED <<dbEnabled, dbProvider, userRoles, rbacLast>>

\* assignRole: the select of the user's row for the role; true when it is there
AssignRoleSelectUserRole(proc) ==
    LET call == running[proc]
    IN  /\ call.at = "selectUserRole"
        /\ running' = [running EXCEPT ![proc] =
              IF ExistingRole(userRoles, call.userId, call.role.id) # {}
              THEN Return(call, [ok |-> TRUE])
              ELSE [call EXCEPT !.at = "insertUserRole"]]
        /\ UNCHANGED <<dbEnabled, dbProvider, userRoles, rbacLast>>

\* assignRole: the insert; the error of an insert that meets the primary key
\* (userId, roleId) is caught and false returned.
AssignRoleInsert(proc) ==
    LET call == running[proc]
        ins == InsertUserRole(userRoles, [userId |-> call.userId,
                                          roleId |-> call.role.id])
    IN  /\ call.at = "insertUserRole"
        /\ userRoles' = ins.userRoles
        /\ running' = [running EXCEPT ![proc] = Return(call, [ok |-> ins.ok])]
        /\ UNCHANGED <<dbEnabled, dbProvider, rbacLast>>

\* removeRole: the delete of the user's row for the role, and true
RemoveRoleDelete(proc) ==
    LET call == running[proc]
    IN  /\ call.at = "deleteUserRole"
        /\ userRoles' = userRoles \ ExistingRole(userRoles, call.userId, call.role.id)
        /\ running' = [running EXCEPT ![proc] = Return(call, [ok |-> TRUE])]
        /\ UNCHANGED <<dbEnabled, dbProvider, rbacLast>>

RoleRaceInit ==
    /\ DatabaseInit
    /\ userRoles \in GuardedRows
    /\ rbacLast = [op |-> "none"]
    /\ running = [proc \in Procs |-> NotRunning]

\* What a step of the RBAC engine under concurrency leaves alone
RoleRaceFrame == <<totpVars, tenantVars, restVars, bootVars, rateVars, endpointVars,
                   cacheVars>>

\* The calls are for roles of an organization.
RoleRaceNext ==
    \/ \E proc \in Procs, op \in {"assignRole", "removeRole"}, userId \in Users,
          roleSlug \in RoleSlugs, organizationId \in Orgs :
          CallRoleChange(proc, op, userId, roleSlug, organizationId)
          /\ UNCHANGED RoleRaceFrame
    \/ \E proc \in Procs : RoleChangeSelectRole(proc) /\ UNCHANGED RoleRaceFrame
    \/ \E proc \in Procs : AssignRoleSelectUserRole(proc) /\ UNCHANGED RoleRaceFrame
    \/ \E proc \in Procs : AssignRoleInsert(proc) /\ UNCHANGED RoleRaceFrame
    \/ \E proc \in Procs : RemoveRoleDelete(proc) /\ UNCHANGED RoleRaceFrame

\* getDefaultTOTPConfig(): window 30.
RoundTripIdle ==
    /\ totpWindow = 30
    /\ verifyLast = [op |-> "none"]

GuardIdle == guardLast = [op |-> "none"]

NoQueryErrors == queryErrors = {}

BootIdle ==
    /\ env = EmptyRecord
    /\ accountRows = {}
    /\ roleRows = {}
    /\ permissionRows = {}
    /\ rolePermissionRows = {}
    /\ bootNextId = 0
    /\ startups = 0
    /\ startup = [op |-> "none"]

RateIdle ==
    /\ rateLimitStore = EmptyRecord
    /\ rateNow = 0
    /\ rateRules = EmptyRecord
    /\ admitted = EmptyRecord
    /\ inFlight = EmptyRecord
    /\ rateLast = [op |-> "none"]

EndpointIdle == endpointLast = [op |-> "none"]

CacheIdle ==
    /\ organizationCache = EmptyRecord
    /\ cacheNow = 0
    /\ organizations = EmptyRecord
    /\ orgCall = EmptyRecord
    /\ cacheLast = [op |-> "none"]

RaceIdle == running = EmptyRecord

LaterIdle == CacheIdle /\ RaceIdle

ServiceIdle == BootIdle /\ RateIdle /\ EndpointIdle /\ LaterIdle

TenantIdle ==
    /\ tenantContext = <<>>
    /\ eventId = <<>>
    /\ reqPc = <<>>
    /\ reqSlug = <<>>
    /\ stored = <<>>
    /\ got = <<>>
    /\ setCalls = <<>>
    /\ tenantConfig = SingleTenant
    /\ detectLast = [op |-> "none"]

InitTOTP ==
    TOTPInit /\ RBACIdle /\ TenantIdle /\ RoundTripIdle /\ GuardIdle /\ NoQueryErrors /\ ServiceIdle
InitRBAC ==
    RBACInit /\ TOTPIdle /\ TenantIdle /\ RoundTripIdle /\ GuardIdle /\ NoQueryErrors /\ ServiceIdle
InitTenant ==
    TenantInit /\ TOTPIdle /\ RBACIdle /\ RoundTripIdle /\ GuardIdle /\ NoQueryErrors /\ ServiceIdle
InitRoundTrip ==
    RoundTripInit /\ TOTPIdle /\ RBACIdle /\ TenantIdle /\ GuardIdle /\ NoQueryErrors /\ ServiceIdle
InitGuard == GuardInit /\ TOTPIdle /\ TenantIdle /\ RoundTripIdle /\ NoQueryErrors
             /\ ServiceIdle
InitFailClosed ==
    FailClosedInit /\ TOTPIdle /\ TenantIdle /\ RoundTripIdle /\ GuardIdle /\ ServiceIdle

SpecTOTP == InitTOTP /\ [][TOTPNext]_vars

SpecSetup == InitTOTP /\ [][SetupNext]_vars

SpecRBAC == InitRBAC /\ [][RBACNext]_vars

SpecTenant == InitTenant /\ [][TenantNext]_vars

SpecRoundTrip == InitRoundTrip /\ [][RoundTripNext]_vars

SpecGuard == InitGuard /\ [][GuardNext]_vars

SpecFailClosed == InitFailClosed /\ [][FailClosedNext]_vars

InitInitialize ==
    InitializeInit /\ TOTPIdle /\ RBACIdle /\ RoundTripIdle /\ GuardIdle /\ NoQueryErrors /\ ServiceIdle

SpecInitialize == InitInitialize /\ [][InitializeNext]_vars

InitBootstrap ==
    /\ BootstrapInit
    /\ TOTPIdle /\ TenantIdle /\ RoundTripIdle /\ GuardIdle /\ NoQueryErrors /\ RateIdle
    /\ EndpointIdle /\ LaterIdle

SpecBootstrap == InitBootstrap /\ [][BootstrapNext]_vars

InitCredentials ==
    /\ CredentialsInit
    /\ TOTPIdle /\ TenantIdle /\ RoundTripIdle /\ GuardIdle /\ NoQueryErrors /\ RateIdle
    /\ EndpointIdle /\ LaterIdle

InitRateLimit ==
    /\ RateLimitInit
    /\ TOTPIdle /\ RBACIdle /\ TenantIdle /\ RoundTripIdle /\ GuardIdle /\ NoQueryErrors
    /\ BootIdle
    /\ EndpointIdle /\ LaterIdle

InitVerifyEndpoint ==
    /\ VerifyEndpointInit
    /\ RBACIdle /\ TenantIdle /\ RoundTripIdle /\ GuardIdle /\ NoQueryErrors /\ BootIdle
    /\ LaterIdle

SpecVerifyEndpoint == InitVerifyEndpoint /\ [][VerifyEndpointNext]_vars

InitAssignEndpoint ==
    /\ AssignEndpointInit
    /\ TOTPIdle /\ TenantIdle /\ RoundTripIdle /\ GuardIdle /\ NoQueryErrors /\ BootIdle
    /\ LaterIdle

SpecAssignEndpoint == InitAssignEndpoint /\ [][AssignEndpointNext]_vars

SpecRateLimit == InitRateLimit /\ [][RateLimitNext]_vars

SpecCredentials == InitCredentials /\ [][CredentialsNext]_vars

InitSubdomain ==
    SubdomainInit /\ TOTPIdle /\ RBACIdle /\ RoundTripIdle /\ GuardIdle /\ NoQueryErrors /\ ServiceIdle

SpecSubdomain == InitSubdomain /\ [][SubdomainNext]_vars

InitOrgCache ==
    /\ OrgCacheInit
    /\ TOTPIdle /\ RBACIdle /\ TenantIdle /\ RoundTripIdle /\ GuardIdle /\ NoQueryErrors
    /\ BootIdle /\ RateIdle /\ EndpointIdle /\ RaceIdle

SpecOrgCache == InitOrgCache /\ [][OrgCacheNext]_vars

InitTwoFactorRace ==
    /\ TwoFactorRaceInit
    /\ RBACIdle /\ TenantIdle /\ RoundTripIdle /\ GuardIdle /\ NoQueryErrors
    /\ BootIdle /\ RateIdle /\ EndpointIdle /\ CacheIdle

SpecTwoFactorRace == InitTwoFactorRace /\ [][TwoFactorRaceNext]_vars

InitRoleRace ==
    /\ RoleRaceInit
    /\ TOTPIdle /\ TenantIdle /\ RoundTripIdle /\ GuardIdle /\ NoQueryErrors
    /\ BootIdle /\ RateIdle /\ EndpointIdle /\ CacheIdle

SpecRoleRace == InitRoleRace /\ [][RoleRaceNext]_vars

(***************************************************************************)
(* Properties.                                                             *)
(***************************************************************************)

\* C1: tenant context is per request. Under any interleaving of concurrent
\* requests, what getCurrentTenantId returns to a request's handler is the
\* organization that the same request's initializeTenantContext stored; no
\* other request's setTenantContext replaces or exposes it. (SpecTenant)
C1_TenantContextPerRequest ==
    \A request \in Requests :
        reqPc[request] = "done" => got[request] = stored[request].organizationId

UsedCodes(rows, userId, code) ==
    {r \in rows : r.userId = userId /\ r.code = code /\ r.used = TRUE}

IsTOTPOf(userId, code) ==
    verifyTOTPCode(users[userId].twoFactorSecret, code, DefaultWindow)

\* No stored row goes from used back to unused
NeverUnused ==
    \A r \in recoveryCodes : r.used => \A q \in recoveryCodes' : q.id = r.id => q.used

RolesOf(userId) == {row.roleId : row \in {x \in userRoles : x.userId = userId}}

\* C4: role grants are confined to their organization. If a user's only role is
\* scoped to organization A and grants what a check asks for, hasPermission for
\* that check is true in scope A and false in the scope of every other
\* organization. (SpecRBAC)
C4_GrantsConfined ==
    dbEnabled =>
        \A u \in Users, roleId \in RoleIds, check \in Checks :
            LET A == RoleById(roleId).organizationId
            IN  (/\ RolesOf(u) = {roleId}
                 /\ A \in Orgs
                 /\ CheckMatches(PermissionsOfRole(roleId), check)) =>
                    /\ hasPermission(u, check, A).result
                    /\ \A B \in Orgs \ {A} : ~hasPermission(u, check, B).result

SystemSuperAdminRoles ==
    {r.id : r \in {x \in Roles : x.slug = "super-admin" /\ x.organizationId = Null}}

Bypass == [result |-> TRUE, lookups |-> <<"isSuperAdmin">>]

\* C5: super-admin bypass. For a user who holds the system-wide super-admin
\* role, hasPermission returns true for every check (also for a slug no
\* Permission row has) and hasRole returns true for every role slug, in every
\* organization scope, and the only lookup made is isSuperAdmin: no
\* organization-scoped role lookup comes before the decision. (SpecRBAC)
C5_SuperAdminBypass ==
    dbEnabled =>
        \A u \in Users :
            RolesOf(u) \cap SystemSuperAdminRoles # {} =>
                \A organizationId \in Orgs \cup {Null, Undefined} :
                    /\ \A check \in Checks :
                          hasPermission(u, check, organizationId) = Bypass
                    /\ \A roleSlug \in RoleSlugs :
                          hasRole(u, roleSlug, organizationId) = Bypass

\* A holder of the system-wide role, and of no other, has just been granted a
\* permission no role has, in the scope of an organization
C5_Witness ==
    /\ rbacLast.op = "hasPermission"
    /\ rbacLast.check = [form |-> "string", slug |-> "ghost.perm"]
    /\ rbacLast.organizationId = "B"
    /\ RolesOf(rbacLast.userId) = SystemSuperAdminRoles
    /\ rbacLast.result
    /\ rbacLast.lookups = <<"isSuperAdmin">>

RoleExists(roleSlug, organizationId) ==
    \E r \in Roles : r.slug = roleSlug /\ r.organizationId = organizationId

\* C6: for every user and role slug, in a scope where a role with that slug
\* exists: hasRole with the same arguments right after assignRole returns true,
\* and right after removeRole returns false. (SpecRBAC)
C6_AssignRemoveThenHasRole ==
    (/\ dbEnabled
     /\ rbacLast.op \in {"assignRole", "removeRole"}
     /\ RoleExists(rbacLast.slug, rbacLast.organizationId)) =>
        hasRole(rbacLast.userId, rbacLast.slug, rbacLast.organizationId).result
            = (rbacLast.op = "assignRole")

\* C7: assignRole is idempotent. With identical arguments, for a role that
\* exists in the scope, a call and the call that follows it both return true
\* and leave exactly one UserRole row for the user and the role. (SpecRBAC)
C7_AssignRoleIdempotent ==
    (/\ dbEnabled
     /\ rbacLast.op = "assignRole"
     /\ RoleExists(rbacLast.slug, rbacLast.organizationId)) =>
        LET again == assignRoleOutcome(userRoles, rbacLast.userId, rbacLast.slug,
                                       rbacLast.organizationId)
            role == CHOOSE r \in Roles : /\ r.slug = rbacLast.slug
                                         /\ r.organizationId = rbacLast.organizationId
        IN  /\ rbacLast.result
            /\ again.result
            /\ Cardinality({row \in again.userRoles :
                               row.userId = rbacLast.userId /\ row.roleId = role.id}) = 1

\* C8: the persisted 2FA state of a user moves only along
\* Disabled -> PendingSetup -> Enabled -> Disabled. generateTOTPSecret changes
\* no persisted state; twoFactorEnabled becomes true only through an enable2FA
\* whose token verifies and which follows a secret generation for the user; the
\* flag and the secret of an enabled user change only through disable2FA.
\* (SpecSetup)
C8_SetupStateMachine ==
    [][/\ totpLast'.op = "generateTOTPSecret" => UNCHANGED <<users, recoveryCodes>>
       /\ \A u \in Users :
             /\ ~users[u].twoFactorEnabled /\ users'[u].twoFactorEnabled =>
                   /\ totpLast'.op = "enable2FA"
                   /\ totpLast'.userId = u
                   /\ totpLast'.isValidToken
                   /\ \E secret \in Secrets : <<u, secret>> \in issued
             /\ users[u].twoFactorEnabled /\ users'[u] # users[u] =>
                   /\ totpLast'.op = "disable2FA"
                   /\ totpLast'.userId = u]_vars

CodesOf(rows, userId) == {r \in rows : r.userId = userId}

\* What C10 promises of the state after enable2FA(userId, secret, _, backupCodes)
EnabledWith(us, rows, userId, secret, backupCodes) ==
    /\ us[userId] = [twoFactorEnabled |-> TRUE, twoFactorSecret |-> secret]
    /\ Cardinality(CodesOf(rows, userId)) = Len(backupCodes)
    /\ {r.code : r \in CodesOf(rows, userId)} = Range(backupCodes)
    /\ \A r \in CodesOf(rows, userId) : r.used = FALSE /\ r.usedAt = Null

\* C10: when enable2FA(userId, secret, token, backupCodes) returns true, the
\* user has twoFactorEnabled = true and the supplied secret, and the user's
\* recovery-code rows are exactly the supplied backupCodes, each unused: every
\* earlier code of the user, used or not, is gone. (SpecTOTP)
C10_EnableReplacesCodes ==
    (/\ totpLast.op = "enable2FA"
     /\ ~totpLast.threw
     /\ totpLast.result = TRUE) =>
        EnabledWith(users, recoveryCodes, totpLast.userId, totpLast.secret,
                    totpLast.backupCodes)

\* enable2FA has just succeeded for a user whose earlier codes, one of them
\* used, were replaced: the only row is not the first one inserted
C10_Witness ==
    /\ totpLast.op = "enable2FA"
    /\ ~totpLast.threw
    /\ totpLast.result = TRUE
    /\ nextId = MaxIds
    /\ Cardinality(recoveryCodes) = 1
    /\ \A r \in recoveryCodes : r.userId = totpLast.userId /\ r.id = nextId - 1

\* A call whose transaction raised: enable2FA with a token that verified, or
\* generateNewBackupCodes with a database, that did not come to its end.
TransactionRaised ==
    \/ /\ totpLast'.op = "enable2FA"
       /\ ~totpLast'.threw
       /\ totpLast'.isValidToken
       /\ totpLast'.result = FALSE
    \/ /\ totpLast'.op = "generateNewBackupCodes"
       /\ totpLast'.threw
       /\ dbEnabled

\* C11: enable2FA, disable2FA and generateNewBackupCodes are all-or-nothing:
\* when a persistence step inside one of them fails, the user rows and the
\* recovery codes are what they were before the call, enable2FA and disable2FA
\* return false and generateNewBackupCodes raises.
C11_AllOrNothing ==
    [][TransactionRaised => UNCHANGED <<users, recoveryCodes>>]_vars

\* The codes a caller presents to verify2FA.
PresentedCodes == CodeValues \cup TokensFor("s1") \cup TokensFor("s2")

\* Every verify2FA(userId, code) would return {isValid: false} now.
AllInvalid(userId) ==
    \A code \in PresentedCodes :
       verify2FAOutcome(users, recoveryCodes, userId, code).result = Invalid

\* C12: after disable2FA(userId) returns true the user has
\* twoFactorEnabled = false, a null secret and no recovery-code row, and every
\* verify2FA(userId, code) returns {isValid: false} until a later enable2FA
\* succeeds: a user with the flag off is refused whatever the code, and the flag
\* goes on only in a call of enable2FA for that user that returns true.
C12_DisabledUntilEnabled ==
    /\ [](/\ (totpLast.op = "disable2FA" /\ totpLast.result = TRUE) =>
               /\ users[totpLast.userId] = NoUser
               /\ {r \in recoveryCodes : r.userId = totpLast.userId} = {}
          /\ \A userId \in Users :
                ~users[userId].twoFactorEnabled => AllInvalid(userId))
    /\ [][\A userId \in Users :
             ~users[userId].twoFactorEnabled /\ users'[userId].twoFactorEnabled =>
                /\ totpLast'.op = "enable2FA"
                /\ totpLast'.userId = userId
                /\ ~totpLast'.threw
                /\ totpLast'.result = TRUE]_vars

\* C13: after generateNewBackupCodes(userId, count, length) succeeds, the
\* user's unused recovery codes are exactly the returned set of count codes;
\* every row of that user with used = true and every row of every other user is
\* unchanged.
C13_RegenerateFrame ==
    [][(totpLast'.op = "generateNewBackupCodes" /\ ~totpLast'.threw) =>
          LET userId == totpLast'.userId
              returned == totpLast'.result
          IN  /\ Len(returned) = totpLast'.count
              /\ {r.code : r \in UnusedCodes(recoveryCodes', userId)} = Range(returned)
              /\ Cardinality(UnusedCodes(recoveryCodes', userId)) = totpLast'.count
              /\ {r \in recoveryCodes' : r.userId = userId /\ r.used}
                    = {r \in recoveryCodes : r.userId = userId /\ r.used}
              /\ {r \in recoveryCodes' : r.userId # userId}
                    = {r \in recoveryCodes : r.userId # userId}
              /\ users' = users]_vars

\* A regeneration that stored at least one fresh code for a user who keeps a
\* used one.
C13_Witness ==
    /\ totpLast.op = "generateNewBackupCodes"
    /\ ~totpLast.threw
    /\ totpLast.count >= 1
    /\ \E r \in recoveryCodes : r.userId = totpLast.userId /\ r.used

\* The user has 2FA on, and the code is neither a TOTP code the user's secret
\* accepts now nor an unused code stored for the user: a wrong TOTP code, an
\* unknown recovery code, a recovery code that was used.
WrongCode(userId, code) ==
    /\ userId \in Users
    /\ users[userId].twoFactorEnabled
    /\ ~IsTOTPOf(userId, code)
    /\ MatchingCodes(recoveryCodes, userId, code) = {}

\* C14: verify2FA never tells why verification failed: for an unknown user, a
\* user without 2FA, a wrong TOTP code, an unknown recovery code, a used
\* recovery code, a disabled database feature and a persistence error alike the
\* result is exactly {isValid: false}, with no isBackupCode or
\* remainingBackupCodes field, and nothing is raised.
C14_FailuresAlike ==
    /\ totpLast.op = "verify2FA" =>
          /\ ~totpLast.threw
          /\ ~totpLast.result.isValid => totpLast.result = Invalid
    /\ \A userId \in Users \cup {UnknownUser}, code \in PresentedCodes :
          LET result == verify2FAOutcome(users, recoveryCodes, userId, code).result
          IN  /\ ~dbEnabled => result = Invalid
              /\ userId = UnknownUser => result = Invalid
              /\ (userId \in Users /\ ~users[userId].twoFactorEnabled) =>
                    result = Invalid
              /\ WrongCode(userId, code) => result = Invalid
              /\ \A statement \in Statements :
                    verify2FAReaches(users, recoveryCodes, userId, code, statement) =>
                       verify2FACaught(users, recoveryCodes, userId, code,
                                       statement).result = Invalid

\* verify2FA has answered {isValid: false} to a call in which the database
\* raised, for a user with 2FA on who holds a code that was used.
C14_Witness ==
    /\ totpLast.op = "verify2FA"
    /\ totpLast.failed
    /\ totpLast.result = Invalid
    /\ users[totpLast.userId].twoFactorEnabled
    /\ \E r \in recoveryCodes : r.userId = totpLast.userId /\ r.used

\* C15: TOTP round trip. A code computed at the current time from the secret
\* and the parameters generateTOTPSecret put in the provisioning URI validates
\* via verifyTOTPCode with window = 0, for every configured totp.window; a code
\* from window + 1 or more 30-second steps away is rejected; any exception
\* during validation yields false.
C15_RoundTrip ==
    verifyLast.op = "verifyTOTPCode" =>
       /\ (verifyLast.secret \in Secrets /\ verifyLast.away = 0
              /\ verifyLast.window = 0) => verifyLast.result
       /\ (verifyLast.secret \in Secrets
              /\ (\/ verifyLast.away >= verifyLast.window + 1
                  \/ -verifyLast.away >= verifyLast.window + 1)) => ~verifyLast.result
       /\ verifyLast.secret = BadSecret => ~verifyLast.result

\* The default message of the guard that was called.
DefaultMessage ==
    IF guardLast.op = "requirePermission"
    THEN "Insufficient permissions" ELSE "Insufficient role privileges"

\* Authentication before authorization, and no return without access.
AuthenticationFirst ==
    /\ ~Authenticated(guardLast.session) =>
          /\ guardLast.outcome.threw
          /\ guardLast.outcome.statusCode = 401
          /\ ~guardLast.outcome.tenantResolved
          /\ guardLast.outcome.lookups = <<>>
    /\ ~guardLast.outcome.threw =>
          Authenticated(guardLast.session) /\ guardLast.hasAccess

\* C16, as stated: requirePermission and requireRole check authentication
\* before authorization: with no session user they fail with 401 without
\* resolving the tenant scope or evaluating any role or permission; with a
\* session user whose check fails they fail with 403 and the default message,
\* where both the status code and the message are replaced by the caller's
\* options when given; they return only when the check passes.
C16_AsStated ==
    guardLast.op \in {"requirePermission", "requireRole"} =>
       /\ AuthenticationFirst
       /\ (Authenticated(guardLast.session) /\ ~guardLast.hasAccess) =>
             /\ guardLast.outcome.threw
             /\ guardLast.outcome.statusCode =
                   IF "statusCode" \in DOMAIN guardLast.options
                   THEN guardLast.options.statusCode ELSE 403
             /\ guardLast.outcome.statusMessage =
                   IF "message" \in DOMAIN guardLast.options
                   THEN guardLast.options.message ELSE DefaultMessage

\* C16, amended: as above, but an option replaces the default only when it is
\* given with a value JavaScript takes as true: a status code of 0 and an empty
\* message leave 403 and the default message in place.
C16_GuardOrder ==
    guardLast.op \in {"requirePermission", "requireRole"} =>
       /\ AuthenticationFirst
       /\ (Authenticated(guardLast.session) /\ ~guardLast.hasAccess) =>
             /\ guardLast.outcome.threw
             /\ guardLast.outcome.statusCode =
                   IF /\ "statusCode" \in DOMAIN guardLast.options
                      /\ guardLast.options.statusCode # 0
                   THEN guardLast.options.statusCode ELSE 403
             /\ guardLast.outcome.statusMessage =
                   IF /\ "message" \in DOMAIN guardLast.options
                      /\ guardLast.options.message # ""
                   THEN guardLast.options.message ELSE DefaultMessage

\* requirePermission has refused a session user with the caller's status code
\* and message.
C16_Witness ==
    /\ guardLast.op = "requirePermission"
    /\ Authenticated(guardLast.session)
    /\ ~guardLast.hasAccess
    /\ guardLast.options = [statusCode |-> 418, message |-> "Custom"]
    /\ guardLast.outcome.statusCode = 418
    /\ guardLast.outcome.statusMessage = "Custom"

RBACScopes == Orgs \cup {Null, Undefined}

\* No database, or an error on a query that hasPermission / hasRole sends for
\* the user: the super-admin query always, the role query unless the user was
\* found to be a super admin.
CheckQueryFails(userId) ==
    \/ ~dbEnabled
    \/ "isSuperAdmin" \in queryErrors
    \/ "getUserRoles" \in queryErrors /\ ~isSuperAdmin(userId)

\* No database, or an error on the role query that the result is computed from.
RoleQueryFails(userId) ==
    \/ ~dbEnabled
    \/ "getUserRoles" \in queryErrors /\ ~isSuperAdmin(userId)

\* No database, or an error on a query that assignRole sends.
AssignQueryFails(userId, roleSlug, organizationId) ==
    \/ ~dbEnabled
    \/ "selectRole" \in queryErrors
    \/ /\ FindRole(roleSlug, organizationId) # {}
       /\ \/ "selectUserRole" \in queryErrors
          \/ /\ "insertUserRole" \in queryErrors
             /\ \A role \in FindRole(roleSlug, organizationId) :
                   ExistingRole(userRoles, userId, role.id) = {}

\* No database, or an error on a query that removeRole sends.
RemoveQueryFails(roleSlug, organizationId) ==
    \/ ~dbEnabled
    \/ "selectRole" \in queryErrors
    \/ FindRole(roleSlug, organizationId) # {} /\ "deleteUserRole" \in queryErrors

\* getUserRoles and getUserPermissions give [], assignRole and removeRole give
\* false and change nothing, when the database is missing or a query of theirs
\* raises.
ReadsAndWritesFailClosed ==
    \A userId \in Users :
       /\ \A organizationId \in RBACScopes :
             (~dbEnabled \/ "getUserRoles" \in queryErrors) =>
                /\ getUserRoles(userId, organizationId) = {}
                /\ getUserPermissions(userId, organizationId) = {}
       /\ \A roleSlug \in RoleSlugs, organizationId \in Orgs \cup {Null} :
             /\ AssignQueryFails(userId, roleSlug, organizationId) =>
                   LET out == assignRoleOutcome(userRoles, userId, roleSlug,
                                                organizationId)
                   IN  ~out.result /\ out.userRoles = userRoles
             /\ RemoveQueryFails(roleSlug, organizationId) =>
                   LET out == removeRoleOutcome(userRoles, userId, roleSlug,
                                                organizationId)
                   IN  ~out.result /\ out.userRoles = userRoles

RolesInScope(roleSlug, organizationId) ==
    {r \in Roles : r.slug = roleSlug /\ r.organizationId = organizationId}

\* C18: assignRole and removeRole resolve the role in exactly one scope: with a
\* non-null organizationId only a role with that slug and that organizationId
\* is matched, with a null organizationId only a system-wide role with that
\* slug; if no role matches in that scope the call returns false, inserts or
\* deletes no user_roles row and does not throw.
C18_RoleScope ==
    [][rbacLast'.op \in {"assignRole", "removeRole"} =>
          LET inScope == RolesInScope(rbacLast'.slug, rbacLast'.organizationId)
              touched == (userRoles' \ userRoles) \cup (userRoles \ userRoles')
          IN  /\ inScope = {} => ~rbacLast'.result /\ userRoles' = userRoles
              /\ (inScope # {} /\ dbEnabled) =>
                    /\ rbacLast'.result
                    /\ touched \subseteq
                          {[userId |-> rbacLast'.userId, roleId |-> r.id] :
                              r \in inScope}]_vars

\* C19: getUserSessionWithRBAC on an unauthenticated request returns exactly
\* {user: null, roles: [], permissions: []}, a user field that is null and no
\* other field, and performs no role or permission lookup.
C19_UnauthenticatedShape ==
    (guardLast.op = "getUserSessionWithRBAC" /\ ~Authenticated(guardLast.session)) =>
       /\ guardLast.outcome.result = [user |-> Null, roles |-> {}, permissions |-> {}]
       /\ guardLast.outcome.lookups = <<>>

\* C20: under the subdomain strategy detectTenant returns the first host label
\* only when the host has at least three dot-separated labels and that label
\* is not one of www, api, admin, app; it returns null for a reserved label,
\* for a host with fewer than three labels, for a missing host, and for a
\* malformed host, one whose first label is empty as in
\* '...invalid...example.com'.
Labels(headers) == split(headers.host, "")

C20_SubdomainDetection ==
    (/\ detectLast.op = "detectTenant"
     /\ detectLast.multiTenant = [enabled |-> TRUE, strategy |-> "subdomain"]) =>
       LET headers == detectLast.headers
           result == detectLast.result
       IN  /\ "host" \notin DOMAIN headers => result = Null
           /\ "host" \in DOMAIN headers =>
                 /\ result # Null =>
                       /\ Len(Labels(headers)) >= 3
                       /\ Labels(headers)[1] \notin {"www", "api", "admin", "app"}
                       /\ result = Labels(headers)[1]
                 /\ Len(Labels(headers)) < 3 => result = Null
                 /\ Labels(headers)[1] \in {"www", "api", "admin", "app"} =>
                       result = Null
                 /\ Labels(headers)[1] = "" => result = Null

\* C21: under the custom strategy detectTenant delegates to the configured
\* resolver function: the tenant identifier it returns is what the resolver
\* answers for the request.
C21_CustomDelegates ==
    (/\ detectLast.op = "detectTenant"
     /\ detectLast.multiTenant.enabled
     /\ detectLast.multiTenant.strategy = "custom"
     /\ "resolver" \in DOMAIN detectLast.multiTenant) =>
       detectLast.result = detectLast.resolved

\* C22: on every path (multi-tenancy disabled, no tenant detected, detection
\* failing, organization not found, organization found, persistence error)
\* initializeTenantContext stores a tenant context exactly once for the
\* request before its handler runs; a detected identifier that is no
\* organization's slug yields the all-null context.
PastHook(request) == reqPc[request] \in {"initialized", "done"}

C22_ContextSetOnce ==
    \A request \in Requests :
        /\ setCalls[request] <= 1
        /\ PastHook(request) => setCalls[request] = 1
        /\ (/\ PastHook(request)
            /\ setCalls[request] = 1
            /\ reqSlug[request] # Null
            /\ ~\E org \in Organizations : org.slug = reqSlug[request]) =>
              /\ stored[request].organizationId = Null
              /\ stored[request].organization = Null

\* The persisted rows, without the id counter.
Persisted(db) ==
    [accounts |-> db.accounts, roles |-> db.roles, permissions |-> db.permissions,
     rolePermissions |-> db.rolePermissions, userRoles |-> db.userRoles]

\* After a start that ensured the super admin: one account with the
\* configured login and no organization, one super-admin role, one user_roles
\* row and it links the two.
OneSuperAdmin ==
    /\ Cardinality({u \in accountRows : u.email = startup.env.login}) = 1
    /\ \A u \in accountRows : u.email = startup.env.login => u.organizationId = Null
    /\ Cardinality({r \in roleRows : r.slug = "super-admin"}) = 1
    /\ Cardinality(userRoles) = 1
    /\ \A ur \in userRoles :
          /\ \E u \in accountRows : u.id = ur.userId /\ u.email = startup.env.login
          /\ \E r \in roleRows : r.id = ur.roleId /\ r.slug = "super-admin"

\* C23: ensureSuperAdminExists is idempotent. After any start that ensured the
\* super admin there is exactly one account with the configured login (no
\* organization), exactly one super-admin role and exactly one user_roles row
\* linking them; and a start that follows such a start under the same
\* configuration, password included, leaves every persisted row as it was.
C23_EnsureIdempotent ==
    (startup.op = "started" /\ startup.ensured) =>
        /\ OneSuperAdmin
        /\ startup.rerun => Persisted(Tables) = Persisted(startup.before)

\* The roles the last start inserted.
CreatedRoles == roleRows \ startup.before.roles

\* The permissions there were when the last start came to create the role:
\* those it found, or those it had just seeded when it found none.
PermissionsAtCreation ==
    IF startup.before.permissions = {}
    THEN seedDefaultPermissions(startup.before).permissions
    ELSE startup.before.permissions

Granted(role, permission) ==
    [roleId |-> role.id, permissionId |-> permission.id] \in rolePermissionRows

\* C24: a super-admin role that the bootstrap creates has no organization, is
\* granted every permission that existed when it was created and each of
\* system.admin, organizations.manage-all, users.manage-all and
\* audit.view-all; and every role_permissions row the start inserted
\* references a role and a permission that exist.
C24_RoleCreatedWithGrants ==
    startup.op = "started" =>
        /\ \A role \in CreatedRoles :
              /\ role.slug = "super-admin"
              /\ role.organizationId = Null
              /\ \A permission \in PermissionsAtCreation : Granted(role, permission)
              /\ \A i \in 1..Len(SuperAdminPermissionSlugs) :
                    \E permission \in permissionRows :
                        /\ permission.slug = SuperAdminPermissionSlugs[i]
                        /\ Granted(role, permission)
        /\ \A rp \in rolePermissionRows \ startup.before.rolePermissions :
              /\ \E role \in roleRows : role.id = rp.roleId
              /\ \E permission \in permissionRows : permission.id = rp.permissionId

\* A start created the role on a database that had permissions and no
\* super-admin role.
C24_Witness ==
    /\ startup.op = "started"
    /\ CreatedRoles # {}
    /\ PermissionsAtCreation # {}
    /\ Cardinality(rolePermissionRows \ startup.before.rolePermissions)
          = Cardinality(PermissionsAtCreation) + Len(SuperAdminPermissionSlugs)

\* The credentials validateSuperAdminCredentials rejects: one of the two
\* missing, a password of fewer than 8 characters, a login that is no address.
InvalidCredentials(environment) ==
    \/ getSuperAdminCredentials(environment) = {}
    \/ Len(environment.password) < 8
    \/ ~EmailShaped(environment.login)

\* C25: with a database and with missing or invalid super-admin credentials
\* the start fails: validateSuperAdminCredentials raises, the error is not
\* caught and logged on the way, nothing is seeded, ensureSuperAdminExists
\* does not run and the server does not come to serve requests.
C25_InvalidCredentialsFatal ==
    (/\ startup.op = "started"
     /\ dbEnabled
     /\ InvalidCredentials(startup.env)) =>
        /\ startup.error # "none"
        /\ ~startup.logged
        /\ ~startup.seeded
        /\ ~startup.ensured
        /\ ~startup.serving

\* The rule of the limiter a key belongs to.
RuleOf(key) == rateRules[key[1]]

\* C26: for every key, the calls a limiter let through since the key's window
\* began are at most maxAttempts, and the entry's counter counts exactly
\* them; a call that is turned away is answered 429 'Too Many Requests' and
\* leaves the counter as it was; a call that is let through is told
\* remaining = maxAttempts minus the calls let through, which is never
\* negative.
C26_AtMostMaxAttempts ==
    /\ \A key \in DOMAIN rateLimitStore :
          /\ rateLimitStore[key].count = admitted[key]
          /\ admitted[key] <= RuleOf(key).maxAttempts
    /\ rateLast.op = "blocked" =>
          /\ rateLast.statusCode = 429
          /\ rateLast.statusMessage = "Too Many Requests"
          /\ rateLimitStore[rateLast.key].count = rateLast.countBefore
          /\ admitted[rateLast.key] = RuleOf(rateLast.key).maxAttempts
    /\ rateLast.op = "admitted" =>
          /\ rateLast.remaining = RuleOf(rateLast.key).maxAttempts - admitted[rateLast.key]
          /\ rateLast.remaining >= 0

\* A call was turned away after two calls for its key had been let through
\* in the same window.
C26_Witness ==
    /\ rateLast.op = "blocked"
    /\ admitted[rateLast.key] = 2
    /\ RuleOf(rateLast.key).maxAttempts = 2

\* A key is blocked: its entry's window has not passed and its counter has
\* reached the limit.
Blocked(key) ==
    /\ key \in DOMAIN rateLimitStore
    /\ rateLimitStore[key].count >= RuleOf(key).maxAttempts
    /\ ~(rateLimitStore[key].resetTime < rateNow)

\* The entry's window has passed.
Expired(key) ==
    key \in DOMAIN rateLimitStore /\ rateLimitStore[key].resetTime < rateNow

\* This step is a limiter call.
LimiterCalled ==
    rateLast' # rateLast /\ rateLast'.op \in {"admitted", "blocked"}

\* What a limiter call does to the windows: inside a window resetTime stays;
\* after the window has passed, and for a key without entry, the call is let
\* through with remaining = maxAttempts - 1 and a window that begins now; no
\* other key's entry changes.
WindowsOfCalls ==
    LimiterCalled =>
        LET key == rateLast'.key
        IN  /\ (key \in DOMAIN rateLimitStore /\ ~Expired(key)) =>
                  rateLimitStore'[key].resetTime = rateLimitStore[key].resetTime
            /\ (Expired(key) \/ key \notin DOMAIN rateLimitStore) =>
                  /\ rateLast'.op = "admitted"
                  /\ rateLast'.remaining = RuleOf(key).maxAttempts - 1
                  /\ rateLimitStore'[key] =
                        [count |-> 1, resetTime |-> rateNow + RuleOf(key).windowMs]
            /\ \A other \in RateKeys \ {key} :
                  /\ other \in DOMAIN rateLimitStore' <=> other \in DOMAIN rateLimitStore
                  /\ other \in DOMAIN rateLimitStore =>
                        rateLimitStore'[other] = rateLimitStore[other]

\* C27 as stated: a blocked key stays blocked for as long as its resetTime has
\* not passed, whatever happens; the first call after resetTime has passed is
\* let through with a fresh counter and a new window; a call for one key
\* changes no other key's entry.
C27_FixedWindow ==
    [][/\ \A key \in RateKeys :
             (Blocked(key) /\ ~(rateLimitStore[key].resetTime < rateNow')) =>
                 Blocked(key)'
       /\ WindowsOfCalls]_vars

\* C27, amended: as C27_FixedWindow, except that a successful super-admin
\* login clears its client's key (clearRateLimit), blocked or not.
C27_FixedWindowUnlessCleared ==
    [][/\ \A key \in RateKeys :
             (/\ Blocked(key)
              /\ ~(rateLimitStore[key].resetTime < rateNow')
              /\ ~(rateLast'.op = "cleared" /\ rateLast'.key = key)) =>
                 Blocked(key)'
       /\ WindowsOfCalls]_vars

\* A key that was blocked was let through again after its window had passed,
\* while another key's window was still running.
C27_Witness ==
    /\ rateLast.op = "admitted"
    /\ rateLast.fresh
    /\ rateLast.countBefore >= RuleOf(rateLast.key).maxAttempts
    /\ rateLast.remaining = RuleOf(rateLast.key).maxAttempts - 1
    /\ \E other \in DOMAIN rateLimitStore \ {rateLast.key} : ~Expired(other)

\* The last request to the verify endpoint came from a signed-in user with
\* 2FA enabled, was let through by the limiter, and carried one of the user's
\* recovery codes that was unused.
CarriedRecoveryCode ==
    /\ endpointLast.op = "2fa/verify"
    /\ endpointLast.response.statusCode # 429
    /\ Authenticated(endpointLast.session)
    /\ users[SessionUserId(endpointLast.session)].twoFactorEnabled
    /\ "code" \in DOMAIN endpointLast.body
    /\ MatchingCodes(endpointLast.before, SessionUserId(endpointLast.session),
                     StringNumber(endpointLast.body.code)) # {}

\* C28: a request to the verify endpoint from a signed-in user with 2FA
\* enabled that carries one of the user's unused recovery codes reaches
\* verify2FA and is answered isValid true and isBackupCode true, and the code
\* is used afterwards.
C28_EndpointTakesRecoveryCodes ==
    CarriedRecoveryCode =>
        /\ endpointLast.response.called
        /\ endpointLast.response.statusCode = 200
        /\ endpointLast.response.result.isValid
        /\ "isBackupCode" \in DOMAIN endpointLast.response.result
        /\ endpointLast.response.result.isBackupCode
        /\ MatchingCodes(recoveryCodes, SessionUserId(endpointLast.session),
                         StringNumber(endpointLast.body.code)) = {}

\* The step `first` was made before the step `second`.
Before(steps, first, second) ==
    \E i, j \in DOMAIN steps : i < j /\ steps[i] = first /\ steps[j] = second

\* C29: a request to the role-assignment endpoint inserts a user_roles row
\* only after requirePermission(event, 'roles.manage') was called and had
\* succeeded, and a request answered 401, 403, 429 or with a validation error
\* (400) leaves the user_roles table as it was.
C29_EnforcedBeforeAssign ==
    endpointLast.op = "roles/assign" =>
        /\ userRoles # endpointLast.before =>
              /\ endpointLast.permitted
              /\ Before(endpointLast.response.steps, "requirePermission", "assignRole")
        /\ endpointLast.response.statusCode \in {400, 401, 403, 429} =>
              userRoles = endpointLast.before

\* A permitted request inserted a row; it was the second request the limiter
\* let through.
C29_Witness ==
    /\ endpointLast.op = "roles/assign"
    /\ endpointLast.response.statusCode = 200
    /\ endpointLast.permitted
    /\ Cardinality(userRoles) = Cardinality(endpointLast.before) + 1
    /\ rateLimitStore[RateKey("api", "1.1.1.1")].count = 2

\* verify2FA was called, for a user with 2FA enabled, with a code that is a
\* valid TOTP code of the user's secret.
CalledWithTOTPCode ==
    /\ endpointLast.op = "2fa/verify"
    /\ endpointLast.response.called
    /\ users[SessionUserId(endpointLast.session)].twoFactorEnabled
    /\ verifyTOTPCode(users[SessionUserId(endpointLast.session)].twoFactorSecret,
                      StringNumber(endpointLast.body.code), DefaultWindow)

\* C30: when verify2FA is given a valid TOTP code, its result is
\* {isValid: true} and no recovery-code row changes (none becomes used), also
\* when the user holds a recovery code of the same value.
C30_TOTPFirst ==
    CalledWithTOTPCode =>
        /\ endpointLast.response.statusCode = 200
        /\ endpointLast.response.result = ValidTOTP
        /\ recoveryCodes = endpointLast.before

\* verify2FA was given a valid TOTP code while the user held an unused
\* recovery code of the same value.
C30_Witness ==
    /\ CalledWithTOTPCode
    /\ MatchingCodes(endpointLast.before, SessionUserId(endpointLast.session),
                     StringNumber(endpointLast.body.code)) # {}

\* The permissions a user's own roles grant in a scope
OwnPermissions(userId, organizationId) ==
    UNION {PermissionsOfRole(roleId) :
             roleId \in {id \in RolesOf(userId) :
                            RoleById(id).organizationId = organizationId}}

Resumes(caller) == orgCall[caller].at = "resume" /\ orgCall'[caller].at = "idle"

\* C32: getOrganizationById caches by id for five minutes. A value, a cached
\* 'not found' included, is served from the cache only while its entry is
\* younger than CACHE_TTL; a call that finds an older entry returns what its own
\* read of the table gave, or null when that read failed; a failed read leaves
\* the cache as it was; and a refresh stores what it read under its id, with
\* the time of the store, over whatever entry another refresh left there.
\* (SpecOrgCache)
C32_CacheTTL ==
    /\ [](/\ cacheLast.op = "getOrganizationById" /\ cacheLast.from = "cache" =>
                cacheLast.age >= 0 /\ cacheLast.age < CACHE_TTL
          /\ cacheLast.op = "getOrganizationById" /\ cacheLast.stale =>
                \/ cacheLast.from = "database"
                \/ cacheLast.from = "error" /\ cacheLast.result = Null)
    /\ [][\A caller \in Callers :
             /\ Resumes(caller) /\ orgCall[caller].raised =>
                   organizationCache' = organizationCache
             /\ Resumes(caller) /\ ~orgCall[caller].raised =>
                   /\ DOMAIN organizationCache' =
                         DOMAIN organizationCache \cup {orgCall[caller].id}
                   /\ \A id \in DOMAIN organizationCache' :
                         organizationCache'[id] =
                            IF id = orgCall[caller].id
                            THEN [org |-> orgCall[caller].read, timestamp |-> cacheNow]
                            ELSE organizationCache[id]
                   /\ cacheLast'.result = orgCall[caller].read
             /\ (cacheLast' # cacheLast /\ cacheLast'.from = "cache") =>
                   /\ cacheLast'.id \in DOMAIN organizationCache
                   /\ cacheLast'.result = organizationCache[cacheLast'.id].org
                   /\ cacheLast'.age =
                         cacheNow - organizationCache[cacheLast'.id].timestamp
                   /\ UNCHANGED organizationCache]_vars

\* Two refreshes of one id were under way together: the one that returned last
\* found its entry expired, read the table, and stored its value over the
\* different value the other had stored in the meantime.
C32_Witness ==
    /\ cacheLast.op = "getOrganizationById"
    /\ cacheLast.from = "database"
    /\ cacheLast.stale
    /\ cacheLast.replaced # NoEntry
    /\ cacheNow - cacheLast.replaced.timestamp < CACHE_TTL
    /\ cacheLast.replaced.org # cacheLast.result
    /\ organizationCache[cacheLast.id] =
          [org |-> cacheLast.result, timestamp |-> cacheNow]

\* C33: access decisions for a user depend only on that user's own role
\* assignments. isSuperAdmin(u) only if a UserRole row links u itself to a
\* role with slug 'super-admin'; getUserRoles(u, org) returns only roles
\* assigned to u; and a user with no UserRole row gets false from hasPermission
\* and hasRole for every check and scope, whatever other users hold. (SpecRBAC)
C33_OwnAssignmentsOnly ==
    dbEnabled =>
        \A u \in Users :
            /\ isSuperAdmin(u) =>
                  \E id \in RolesOf(u) : RoleById(id).slug = "super-admin"
            /\ \A organizationId \in Orgs \cup {Null, Undefined} :
                  /\ getUserRoles(u, organizationId) \subseteq RolesOf(u)
                  /\ RolesOf(u) = {} =>
                        /\ \A check \in Checks :
                              ~hasPermission(u, check, organizationId).result
                        /\ \A roleSlug \in RoleSlugs :
                              ~hasRole(u, roleSlug, organizationId).result

\* C34: the super-admin bypass is reserved to the system-wide role. A user
\* whose only role is an organization's role with slug 'super-admin' is not a
\* super-admin, and hasPermission and hasRole for that user in the scope of
\* another organization return false. (SpecRBAC)
C34_BypassSystemWideOnly ==
    dbEnabled =>
        \A u \in Users, roleId \in RoleIds :
            LET role == RoleById(roleId)
            IN  (/\ RolesOf(u) = {roleId}
                 /\ role.slug = "super-admin"
                 /\ role.organizationId \in Orgs) =>
                    /\ ~isSuperAdmin(u)
                    /\ \A other \in Orgs \ {role.organizationId} :
                          /\ \A check \in Checks :
                                ~hasPermission(u, check, other).result
                          /\ \A roleSlug \in RoleSlugs :
                                ~hasRole(u, roleSlug, other).result

\* A call of verify2FA that returned isValid:true for a backup code
AcceptedBackupCode(call) ==
    /\ call.op = "verify2FA"
    /\ call.at = "done"
    /\ \E n \in 0..(MaxIds + 2 * MaxBatch) :
          call.result = [isValid |-> TRUE, isBackupCode |-> TRUE,
                         remainingBackupCodes |-> n]

\* C35: a recovery code authenticates at most once under concurrency. Of the
\* verify2FA calls running together for one user with the same unused recovery
\* code, at most one returns isValid:true: no two calls are accepted on the
\* same recovery_codes row. (SpecTwoFactorRace)
C35_RecoveryCodeOnce ==
    \A p, q \in Procs :
        (/\ p # q
         /\ AcceptedBackupCode(running[p])
         /\ AcceptedBackupCode(running[q])
         /\ running[p].userId = running[q].userId
         /\ running[p].code = running[q].code) =>
            running[p].row.id # running[q].row.id

\* C37: in every reachable state a user whose twoFactorEnabled is false has no
\* recovery-code rows, however enable2FA, disable2FA, verify2FA and the
\* backup-codes handler's generateNewBackupCodes interleave. (SpecTwoFactorRace)
C37_DisabledHasNoCodes ==
    \A u \in Users :
        ~users[u].twoFactorEnabled => \A r \in recoveryCodes : r.userId # u

\* With a database, the same call made by both handlers, for a role there is
SameAssignRole(p, q) ==
    /\ dbEnabled
    /\ p # q
    /\ running[p].op = "assignRole" /\ running[p].at = "done"
    /\ running[q].op = "assignRole" /\ running[q].at = "done"
    /\ running[p].userId = running[q].userId
    /\ running[p].slug = running[q].slug
    /\ running[p].organizationId = running[q].organizationId
    /\ RoleExists(running[p].slug, running[p].organizationId)

\* The user_roles rows a call is about
RowsOf(call) ==
    {row \in userRoles \cup userRoles' :
        row.userId = call.userId /\ RoleById(row.roleId).slug = call.slug
        /\ RoleById(row.roleId).organizationId = call.organizationId}

\* C36: role assignment is atomic under concurrency. When two assignRole calls
\* with identical arguments, for a role that exists, have run together, one
\* UserRole row links the user and the role and both calls have returned true;
\* and the steps of assignRole and removeRole calls running together change
\* no row but the one a call is about, so that what they leave is what one of
\* their sequential orders leaves. (SpecRoleRace)
C36_AssignAtomic ==
    /\ [](\A p, q \in Procs :
             SameAssignRole(p, q) =>
                /\ Cardinality({row \in userRoles :
                       /\ row.userId = running[p].userId
                       /\ RoleById(row.roleId).slug = running[p].slug
                       /\ RoleById(row.roleId).organizationId =
                             running[p].organizationId}) = 1
                /\ running[p].result = [ok |-> TRUE]
                /\ running[q].result = [ok |-> TRUE])
    /\ [][\A row \in (userRoles \ userRoles') \cup (userRoles' \ userRoles) :
             \E proc \in Procs : row \in RowsOf(running[proc])]_vars

\* users.organizationId of the users of the model: u1 is a member of
\* organization A, u2 of organization B.
UserOrganization(userId) == IF userId = "u1" THEN "A" ELSE "B"

\* C39: role assignments never cross tenants. A request to the role-assignment
\* endpoint removes no UserRole row, and every row it creates links a role of
\* the organization the handler acts in (getCurrentTenantId) to a user of that
\* same organization. (SpecAssignEndpoint)
C39_NoCrossTenant ==
    endpointLast.op = "roles/assign" =>
        /\ endpointLast.before \subseteq userRoles
        /\ \A row \in userRoles \ endpointLast.before :
              /\ endpointLast.atAssign \in Orgs
              /\ RoleById(row.roleId).organizationId = endpointLast.atAssign
              /\ UserOrganization(row.userId) = endpointLast.atAssign

\* C38: whenever ensureSuperAdminExists returns a user, that user holds a role
\* with slug 'super-admin' and verifySuperAdmin with the configured login and
\* password then returns that user, also when the user existed before the
\* start: with another password, or left without the role by an earlier start
\* that failed after creating the user. (SpecBootstrap)
C38_EnsuredIsSuperAdmin ==
    (startup.op = "started" /\ startup.ensured) =>
        /\ \E row \in userRoles, role \in roleRows :
              /\ row.userId = startup.user
              /\ row.roleId = role.id
              /\ role.slug = "super-admin"
        /\ verifySuperAdmin(Tables, env.login, env.password) = startup.user
====
